---- MODULE Spec2Model ----
(***************************************************************************)
(* Fact resolution, derived metrics and screening of koonkayma/stockProgram *)
(*                                                                         *)
(*   SpecFacts   process_company_facts (SEC_EDGAR_API), entry by entry      *)
(*   SpecImport  one run of fetch_sec_annual_financials or ImportAnnualData *)
(*   SpecScreen  one ticker through ScannAnnualData_FCF, through importData *)
(*               and ScreenByEBIT_FCF_DB, or one row of simfin              *)
(*   SpecRepeat  process_company_facts and the importData summary against   *)
(*               a second computation from the same input                   *)
(*   SpecTransform  one CIK batch of transformSECToPeriods                  *)
(*   SpecEdgar   extract_financials_for_filing of EDGAR_Tool                *)
(*   SpecSimfin  the column mapping of import_simfin_financials, run twice  *)
(*   SpecNumImport  num.txt through importUS_SEC_Data and                   *)
(*               importSECData_AllForms, chunk by chunk                     *)
(*   SpecRefresh  successive runs of ImportAnnualData over one table        *)
(*   SpecTickers  the request loop of get_all_us_stocks                     *)
(*   SpecFetchFmp  one call of fetch_fmp_data                               *)
(***************************************************************************)
EXTENDS Integers, Sequences, FiniteSets, TLC

(* Python's None, and a present value, as sequences of length 0 and 1. *)
None == <<>>
Some(v) == <<v>>

(* Bound: the number of unit entries read from one company's facts. *)
MaxEntries == 3

---------------------------------------------------------------------------
(* SEC_EDGAR_API/fetch_sec_annual_financials.py: configuration and helpers *)

DESIRED_TAGS ==
    [OperatingCashFlow   |-> <<"us-gaap:NetCashProvidedByUsedInOperatingActivities",
                               "ifrs-full:CashFlowsFromUsedInOperatingActivities">>,
     CapitalExpenditures |-> <<"us-gaap:PaymentsToAcquirePropertyPlantAndEquipment",
                               "ifrs-full:PurchaseOfPropertyPlantAndEquipment">>]

(* The order in which "for key, possible_tags in DESIRED_TAGS.items()" runs. *)
ConceptOrder == <<"OperatingCashFlow", "CapitalExpenditures">>

camel_to_snake(name) ==
    CASE name = "OperatingCashFlow"   -> "operating_cash_flow"
      [] name = "CapitalExpenditures" -> "capital_expenditures"

(* datetime.strptime(s, '%Y-%m-%d').date(), as the number yyyymmdd; None for
   a string that is no date. *)
parse_date(date_str) ==
    CASE date_str = "2020-12-31" -> Some(20201231)
      [] date_str = "2021-01-31" -> Some(20210131)
      [] date_str = "2021-02-01" -> Some(20210201)
      [] date_str = "2021-03-01" -> Some(20210301)
      [] date_str = "2021-12-31" -> Some(20211231)
      [] OTHER                   -> None

(* A JSON value of "val": a number (kind "num") or a string (kind "str"). *)
NumText(text) ==
    CASE text = "0"    -> Some(0)
      [] text = "7"    -> Some(7)
      [] text = "100"  -> Some(100)
      [] text = "30"   -> Some(30)
      [] text = "-30"  -> Some(-30)
      [] OTHER         -> None

(* safe_decimal: a non-string falsy value (the number 0) returns None at
   "if not value"; a string is stripped, "" returns None, and a text that is
   neither a Decimal nor a float returns None. *)
safe_decimal(value) ==
    IF value = None THEN None
    ELSE LET v == value[1] IN
         IF v.kind = "num" /\ NumText(v.text) = Some(0) THEN None
         ELSE IF v.kind = "str" /\ v.text = "" THEN None
         ELSE NumText(v.text)

(* safe_int_or_bigint: an int is returned as it is; other values go through
   Decimal(str(value).strip()) and int(). *)
safe_int_or_bigint(value) ==
    IF value = None THEN None ELSE NumText(value[1].text)

(* entry_form in ('10-K', '20-F') *)
IsAnnualReport(form) == form \in {"10-K", "20-F"}

---------------------------------------------------------------------------
(* The inputs: unit entries of a tag. *)

RawVals == {[kind |-> "num", text |-> "7"], [kind |-> "str", text |-> "abc"]}

EndOf(filed) == IF filed = "2021-02-01" THEN "2020-12-31" ELSE "2021-01-31"

Seven == Some([kind |-> "num", text |-> "7"])

(* Annual entries of fiscal year 2020 in every form, filing date and value,
   and one entry each of: another year, a filing date that is no date, the
   number 0. *)
Entries ==
    {[fy |-> Some(2020), fp |-> "FY", form |-> f, filed |-> d, val |-> Some(v), end |-> EndOf(d)] :
        f \in {"10-K", "20-F", "10-Q"}, d \in {"2021-02-01", "2021-03-01"}, v \in RawVals}
    \cup {[fy |-> Some(2021), fp |-> "FY", form |-> "10-K", filed |-> "2021-03-01",
           val |-> Seven, end |-> "2021-12-31"],
          [fy |-> Some(2020), fp |-> "FY", form |-> "10-K", filed |-> "n/a",
           val |-> Seven, end |-> "2021-01-31"],
          [fy |-> Some(2020), fp |-> "FY", form |-> "10-K", filed |-> "2021-03-01",
           val |-> Some([kind |-> "num", text |-> "0"]), end |-> "2021-01-31"]}

Years == {2020, 2021}

(* What facts[taxonomy][tag_name] is for a candidate tag: not there, an empty
   dict, a dict without units, or a dict whose units hold one list. *)
TagKinds == {"absent", "empty", "nounits", "USD", "EUR"}

(* The facts drawn for a concept's candidate tags, first tag first. *)
FactsOfConcept(tags) ==
    {k \in [{tags[i] : i \in 1..Len(tags)} -> TagKinds] :
        /\ k[tags[1]] # "EUR"
        /\ k[tags[2]] \notin {"empty", "nounits"}
        /\ ~(k[tags[1]] = "USD" /\ k[tags[2]] = "EUR")}

---------------------------------------------------------------------------
(* process_company_facts, read entry by entry. *)

VARIABLES
    prog,                \* the program that runs
    pc,                  \* "concept", "entries" or "done"
    ci,                  \* index in ConceptOrder of the concept being resolved
    tagKind,             \* the facts of the company for the concept's candidate tags
    used_full_tag,       \* the tag found for the concept, None when none was found
    seen,                \* the entries of unit_data read so far
    nread,               \* entries read from this company's facts, all concepts
    yearly_data_for_tag, \* year -> None or the best entry so far
    annual_results,      \* year -> None or the record of the year
    origin               \* year -> column -> the tag its value was read from

factVars == <<pc, ci, tagKind, used_full_tag, seen, nread, yearly_data_for_tag,
              annual_results, origin>>

(* fetch_sec_annual_financials.py, __main__ *)
VARIABLES
    mpc,                  \* "start", "company", "years" or "done"
    company_tickers_data, \* the ticker list fetched from the SEC
    companies_to_process, \* list(all_companies.items())
    processed_count,      \* companies the loop has taken up
    annual_data_by_year,  \* the result of process_company_facts for the company
    years_left,           \* the years of the merging loop still to come
    years_merged_count,
    merged,               \* the records given to db_session.merge, in order
    session,              \* the merged records not yet committed
    sec_db                \* the committed (cik, year) rows

secVars == <<mpc, company_tickers_data, companies_to_process, processed_count,
             annual_data_by_year, years_left, years_merged_count, merged, session,
             sec_db>>

(* ImportAnnualData.py, main *)
VARIABLES
    fpc,            \* "start", "ticker", "rows" or "done"
    stock_tickers,  \* the result of get_all_us_stocks
    ticker_i,       \* tickers the loop has taken up
    combined_df,    \* the result of process_ticker for the ticker
    rows_done,      \* rows of combined_df the upsert loop has taken up
    upserted,       \* the (ticker, year) rows given to upsert_annual_data, in order
    fmp_db,         \* the committed (ticker, year) rows
    skipped_fresh_count, \* tickers the run has skipped as fresh
    failed_rows     \* the rows counted in db_errors and not upserted since

fmpVars == <<fpc, stock_tickers, ticker_i, combined_df, rows_done, upserted, fmp_db,
             skipped_fresh_count, failed_rows>>

(* ScannAnnualData_FCF.py, importData.py with ScreenByEBIT_FCF_DB.py, and
   simfin/import_simfin_financials.py, for one ticker *)
VARIABLES
    spc,              \* "start", "fetched", "screened", "summarized", "queried"
    financial_df,     \* the annual rows of the ticker, oldest first
    frame,            \* the rows with EBITDA and FCF, and the window taken of them
    verdict,          \* screen_stocks: the tests evaluated for the ticker
    passed_screening, \* screen_stocks: the list returned
    summary,          \* calculate_financial_summary: the summary returned
    summary_table,    \* the stock_financial_summary row of the ticker, or None
    db_results,       \* screen_stocks_from_db: the rows selected (results)
    db_data           \* simfin: the row built for the database

scrVars == <<spc, financial_df, frame, verdict, passed_screening, summary,
             summary_table, db_results, db_data>>

(* transformSECToPeriods.py, main *)
VARIABLES
    tpc,              \* "start", "fetched", "transformed" or "done"
    raw_data_df,      \* the rows fetched from sec_numeric_data for the CIK batch
    period_data_df,   \* the rows transform_data returns
    periods_table     \* the rows of company_financial_periods

trVars == <<tpc, raw_data_df, period_data_df, periods_table>>

(* EDGAR_Tool/edgar_financial_importer.py, extract_financials_for_filing *)
VARIABLES
    epc,              \* "start", "facts" or "extracted"
    us_gaap_facts,    \* facts_data.us_gaap: tag -> list of facts, or absent
    financial_data,   \* the dictionary the function returns
    ed_status         \* the status string the function returns

edVars == <<epc, us_gaap_facts, financial_data, ed_status>>

(* simfin/import_simfin_financials.py, main: the column mapping *)
VARIABLES
    simpc,             \* "start", "loaded" or "mapped"
    frames,            \* the columns of df_income, df_balance and df_cashflow
    col_priority,      \* the order in which this run iterates the set col_priority
    final_cols,        \* db column -> the column of df_merged it is read from
    earlier_final_cols \* final_cols of an earlier run over the same frames

simVars == <<simpc, frames, col_priority, final_cols, earlier_final_cols>>

(* importUS_SEC_Data.py and importSECData_AllForms.py, main *)
VARIABLES
    npc,                  \* "start", "chunks" or "done"
    num_file,             \* the rows of num.txt
    chunk_size,           \* the chunksize num.txt is read with
    chunk_num,            \* chunks processed
    numeric_table,        \* the rows committed to sec_numeric_data
    chunk_call,           \* the last call of process_numeric_chunk
    total_processed_rows, \* sum of the insert counts returned
    total_errors          \* sum of the error counts returned

numVars == <<npc, num_file, chunk_size, chunk_num, numeric_table, chunk_call,
             total_processed_rows, total_errors>>

(* ImportAnnualData.py and importData.py, get_all_us_stocks: the loop *)
VARIABLES
    upc,             \* "loop", "cleaning" or "returned"
    current_range,   \* the start of the range requested next
    tickers_fetched, \* len(all_tickers_with_exchange)
    tv_requests,     \* requests sent, counted up to RequestCap
    tv_response      \* what the last request came to

tvVars == <<upc, current_range, tickers_fetched, tv_requests, tv_response>>

(* ImportAnnualData.py, fetch_fmp_data *)
VARIABLES
    rpc,         \* "call" or "returned"
    retries,     \* the retries left
    delay,       \* the seconds slept before the next retry
    outcomes,    \* what the requests of the call came to, in order
    fmp_result   \* "pending", and "list" or "None" once the call has returned

reqVars == <<rpc, retries, delay, outcomes, fmp_result>>

(* The variables of the programs of the first part of the module, and those
   of the programs of its second part. *)
mainVars == <<factVars, secVars, fmpVars, scrVars, trVars>>
newVars == <<edVars, simVars, numVars, tvVars, reqVars>>

vars == <<prog, factVars, secVars, fmpVars, scrVars, trVars, newVars>>

Columns == {camel_to_snake(ConceptOrder[i]) : i \in 1..Len(ConceptOrder)}

NoYearly == [y \in Years |-> None]

(* __main__ before the ticker list is fetched. *)
SecStart ==
    /\ mpc = "start"
    /\ company_tickers_data = None
    /\ companies_to_process = <<>>
    /\ processed_count = 0
    /\ annual_data_by_year = NoYearly
    /\ years_left = <<>>
    /\ years_merged_count = 0
    /\ merged = <<>>
    /\ session = <<>>
    /\ sec_db = {}

(* main before get_all_us_stocks is called, the table holding the rows db. *)
FmpStartWith(db) ==
    /\ fpc = "start"
    /\ stock_tickers = <<>>
    /\ ticker_i = 0
    /\ combined_df = <<>>
    /\ rows_done = 0
    /\ upserted = <<>>
    /\ fmp_db = db
    /\ skipped_fresh_count = 0
    /\ failed_rows = {}

FmpStart == FmpStartWith({})

NoFrame == [derived |-> <<>>, window |-> <<>>]

(* Before any row of the ticker is fetched. *)
ScrStart ==
    /\ spc = "start"
    /\ financial_df = <<>>
    /\ frame = NoFrame
    /\ verdict = None
    /\ passed_screening = <<>>
    /\ summary = None
    /\ summary_table = None
    /\ db_results = <<>>
    /\ db_data = None

(* import_simfin_financials.main before the datasets are loaded. *)
SimStart ==
    /\ simpc = "start"
    /\ frames = <<>>
    /\ col_priority = <<>>
    /\ final_cols = <<>>
    /\ earlier_final_cols = None

(* importUS_SEC_Data.main before num.txt is opened. *)
NumStart ==
    /\ npc = "start"
    /\ num_file = <<>>
    /\ chunk_size = 1
    /\ chunk_num = 0
    /\ numeric_table = {}
    /\ chunk_call = None
    /\ total_processed_rows = 0
    /\ total_errors = 0

(* get_all_us_stocks before the first request. *)
TvStart ==
    /\ upc = "loop"
    /\ current_range = 0
    /\ tickers_fetched = 0
    /\ tv_requests = 0
    /\ tv_response = "none"

(* ImportAnnualData.py, lines 34-35 *)
FMP_RETRY_COUNT == 3
FMP_RETRY_DELAY_START == 1

(* fetch_fmp_data before the first request. *)
ReqStart ==
    /\ rpc = "call"
    /\ retries = FMP_RETRY_COUNT
    /\ delay = FMP_RETRY_DELAY_START
    /\ outcomes = <<>>
    /\ fmp_result = "pending"

(* extract_financials_for_filing before filing.get_facts() is called. *)
EdStart ==
    /\ epc = "start"
    /\ us_gaap_facts = <<>>
    /\ financial_data = <<>>
    /\ ed_status = "Extraction Attempted"

(* main before the CIKs are read. *)
TrStart ==
    /\ tpc = "start"
    /\ raw_data_df = <<>>
    /\ period_data_df = {}
    /\ periods_table = {}

(* A tag search that passes over a tag without unit data. *)
RECURSIVE FindTag_FallThrough(_, _, _)
FindTag_FallThrough(possible_tags, kinds, i) ==
    IF i > Len(possible_tags) THEN None
    ELSE IF kinds[possible_tags[i]] \in {"USD", "EUR"} THEN Some(possible_tags[i])
    ELSE FindTag_FallThrough(possible_tags, kinds, i + 1)

(* Lines 251-271: the first candidate tag that is in facts, None when there is
   none. *)
RECURSIVE FindTag(_, _, _)
FindTag(possible_tags, kinds, i) ==
    IF i > Len(possible_tags) THEN None
    ELSE IF kinds[possible_tags[i]] # "absent" THEN Some(possible_tags[i])
    ELSE FindTag(possible_tags, kinds, i + 1)

(* Lines 274-302: the concept has entries to read when the found tag's data is
   a non-empty dict with non-empty units; the unit key is 'USD' when it is
   there and the first unit otherwise. *)
HasUnitData(kinds, tag) == tag # None /\ kinds[tag[1]] \in {"USD", "EUR"}

(* A comparison by filing date alone. *)
is_better_candidate_NoFormPriority(yd, entry, filed_date) ==
    LET fy == entry.fy[1] IN
    IF yd[fy] = None THEN TRUE
    ELSE filed_date > yd[fy][1].filed_date

(* A comparison in which an entry of the same class always replaces. *)
is_better_candidate_LastWins(yd, entry, filed_date) ==
    LET fy == entry.fy[1] IN
    IF yd[fy] = None THEN TRUE
    ELSE IsAnnualReport(entry.form) \/ ~IsAnnualReport(yd[fy][1].form)

(* Lines 316-336: is the entry better than the best of its year so far. *)
is_better_candidate(yd, entry, filed_date) ==
    LET fy == entry.fy[1] IN
    IF yd[fy] = None THEN TRUE
    ELSE LET current_best == yd[fy][1]
             entry_is_annual_report == IsAnnualReport(entry.form)
             current_is_annual_report == IsAnnualReport(current_best.form)
         IN IF entry_is_annual_report /\ ~current_is_annual_report THEN TRUE
            ELSE IF entry_is_annual_report = current_is_annual_report
                 THEN filed_date > current_best.filed_date
                 ELSE FALSE

(* An iteration that stores a zero for a value that does not parse. *)
EntryStep_ZeroOnFailure(yd, entry, idx, is_share_metric) ==
    IF ~(entry.form # "" /\ entry.fp = "FY" /\ entry.fy # None) THEN yd
    ELSE LET filed == parse_date(entry.filed) IN
         IF filed = None THEN yd
         ELSE IF ~is_better_candidate(yd, entry, filed[1]) THEN yd
         ELSE LET value_to_store == IF is_share_metric THEN safe_int_or_bigint(entry.val)
                                    ELSE safe_decimal(entry.val)
              IN [yd EXCEPT ![entry.fy[1]] =
                     Some([val |-> IF value_to_store = None THEN 0 ELSE value_to_store[1],
                           filed_date |-> filed[1],
                           form |-> entry.form, end_date |-> parse_date(entry.end),
                           idx |-> idx])]

(* Lines 308-351: one iteration of "for entry in unit_data"; idx is the
   position of the entry in the list. *)
EntryStep(yd, entry, idx, is_share_metric) ==
    IF ~(entry.form # "" /\ entry.fp = "FY" /\ entry.fy # None) THEN yd
    ELSE LET filed == parse_date(entry.filed) IN
         IF filed = None THEN yd
         ELSE IF ~is_better_candidate(yd, entry, filed[1]) THEN yd
         ELSE LET value_to_store == IF is_share_metric THEN safe_int_or_bigint(entry.val)
                                    ELSE safe_decimal(entry.val)
              IN IF value_to_store = None THEN yd
                 ELSE [yd EXCEPT ![entry.fy[1]] =
                          Some([val |-> value_to_store[1], filed_date |-> filed[1],
                                form |-> entry.form, end_date |-> parse_date(entry.end),
                                idx |-> idx])]

(* A rule that takes the metadata of every concept integrated. *)
update_metadata_Always(rec, data) == TRUE

(* Lines 364-388: the metadata of the year is replaced by the entry's. *)
update_metadata(rec, data) ==
    IF rec.form = None \/ rec.filed_date = None THEN TRUE
    ELSE LET entry_is_annual_report == IsAnnualReport(data.form)
             current_is_annual_report == IsAnnualReport(rec.form[1])
         IN IF entry_is_annual_report /\ ~current_is_annual_report THEN TRUE
            ELSE IF entry_is_annual_report = current_is_annual_report
                 THEN data.filed_date > rec.filed_date[1]
                 ELSE FALSE

NewYearRecord == [vals |-> [c \in Columns |-> None], form |-> None,
                  filed_date |-> None, period_end_date |-> None]

(* Lines 355-388: the best entries of the tag go into the records of their
   years. *)
IntegrateYear(res, db_col_snake, data) ==
    LET rec == IF res = None THEN NewYearRecord ELSE res[1]
        withVal == [rec EXCEPT !.vals[db_col_snake] = Some(data.val)]
    IN IF update_metadata(rec, data)
       THEN Some([withVal EXCEPT !.form = Some(data.form),
                                 !.filed_date = Some(data.filed_date),
                                 !.period_end_date = data.end_date])
       ELSE Some(withVal)

Integrate(results, db_col_snake, yd) ==
    [y \in Years |-> IF yd[y] = None THEN results[y]
                     ELSE IntegrateYear(results[y], db_col_snake, yd[y][1])]

CurrentConcept == ConceptOrder[ci]
CurrentTags == DESIRED_TAGS[CurrentConcept]
TagSet(tags) == {tags[i] : i \in 1..Len(tags)}

NextConcept(i) == IF i < Len(ConceptOrder) THEN "concept" ELSE "done"

FactsStart ==
    /\ pc = "concept"
    /\ ci = 1
    /\ tagKind = [t \in TagSet(DESIRED_TAGS[ConceptOrder[1]]) |-> "absent"]
    /\ used_full_tag = None
    /\ seen = <<>>
    /\ nread = 0
    /\ yearly_data_for_tag = NoYearly
    /\ annual_results = [y \in Years |-> None]
    /\ origin = [y \in Years |-> [c \in Columns |-> None]]

(* The start of the programs of the first part of the module, and of those
   of its second part. *)
MainStart == FactsStart /\ SecStart /\ FmpStart /\ ScrStart /\ TrStart
NewStart == EdStart /\ SimStart /\ NumStart /\ TvStart /\ ReqStart

FactsInit ==
    prog = "process_company_facts" /\ FactsStart /\ SecStart /\ FmpStart /\ ScrStart
    /\ TrStart /\ NewStart

(* Lines 245-304: the tag of the next concept is looked up in the facts; a
   concept without a usable tag or without units is skipped. *)
SelectTag ==
    /\ pc = "concept"
    /\ \E kinds \in FactsOfConcept(CurrentTags) :
          LET tag == FindTag(CurrentTags, kinds, 1) IN
          /\ tagKind' = kinds
          /\ used_full_tag' = tag
          /\ seen' = <<>>
          /\ yearly_data_for_tag' = NoYearly
          /\ IF HasUnitData(kinds, tag)
             THEN pc' = "entries" /\ ci' = ci
             ELSE pc' = NextConcept(ci) /\ ci' = IF ci < Len(ConceptOrder) THEN ci + 1 ELSE ci
    /\ UNCHANGED <<nread, annual_results, origin>>
    /\ UNCHANGED <<prog, secVars, fmpVars, scrVars, trVars, newVars>>

(* Lines 308-351: the next entry of unit_data is read. *)
ReadEntry ==
    /\ pc = "entries"
    /\ nread < MaxEntries
    /\ \E entry \in Entries :
          /\ seen' = Append(seen, entry)
          /\ yearly_data_for_tag' =
                EntryStep(yearly_data_for_tag, entry, Len(seen) + 1, FALSE)
    /\ nread' = nread + 1
    /\ UNCHANGED <<pc, ci, tagKind, used_full_tag, annual_results, origin>>
    /\ UNCHANGED <<prog, secVars, fmpVars, scrVars, trVars, newVars>>

(* Lines 354-388: unit_data is exhausted and the concept is integrated; the
   list read and the per-tag dict are dropped with the iteration. *)
IntegrateConcept ==
    /\ pc = "entries"
    /\ annual_results' =
          Integrate(annual_results, camel_to_snake(CurrentConcept), yearly_data_for_tag)
    /\ origin' = [y \in Years |->
                    IF yearly_data_for_tag[y] = None THEN origin[y]
                    ELSE [origin[y] EXCEPT ![camel_to_snake(CurrentConcept)] = used_full_tag]]
    /\ seen' = <<>>
    /\ yearly_data_for_tag' = NoYearly
    /\ pc' = NextConcept(ci)
    /\ ci' = IF ci < Len(ConceptOrder) THEN ci + 1 ELSE ci
    /\ UNCHANGED <<tagKind, used_full_tag, nread>>
    /\ UNCHANGED <<prog, secVars, fmpVars, scrVars, trVars, newVars>>

(* Lines 279, 308-313, 390-391: an item of unit_data that is not a dict
   (entry.get raises), or whose fy cannot be a dict key. The exception leaves
   the loop and is caught by the except of the concept, after the integration
   it skips: the concept's best entries are dropped and the next concept is
   taken up. *)
EntryRaises ==
    /\ pc = "entries"
    /\ nread < MaxEntries
    /\ nread' = nread + 1
    /\ seen' = <<>>
    /\ yearly_data_for_tag' = NoYearly
    /\ pc' = NextConcept(ci)
    /\ ci' = IF ci < Len(ConceptOrder) THEN ci + 1 ELSE ci
    /\ UNCHANGED <<tagKind, used_full_tag, annual_results, origin>>
    /\ UNCHANGED <<prog, secVars, fmpVars, scrVars, trVars, newVars>>

FactsNext == SelectTag \/ ReadEntry \/ EntryRaises \/ IntegrateConcept

SpecFacts == FactsInit /\ [][FactsNext]_vars

---------------------------------------------------------------------------
(* Properties of process_company_facts. *)

(* An entry the loop considers: a form, fp = 'FY', a fiscal year, a filing
   date that parses. *)
IsAnnualEntry(e) ==
    e.form # "" /\ e.fp = "FY" /\ e.fy # None /\ parse_date(e.filed) # None

(* An annual entry whose value parses. *)
IsParseable(e) == IsAnnualEntry(e) /\ safe_decimal(e.val) # None

DifferOnlyInForm(a, b) ==
    /\ a.form # b.form
    /\ a.fy = b.fy /\ a.fp = b.fp /\ a.filed = b.filed /\ a.val = b.val /\ a.end = b.end

Best(y) == yearly_data_for_tag[y][1]

(* C1: of two annual entries of the chosen tag and one fiscal year that differ
   only in form, exactly one of them a 10-K or 20-F, the entry selected for the
   year is a 10-K/20-F one in whichever order the two stand in the list, and it
   is that very entry when the list holds no other; the other form of the pair
   is never the selected entry. (When the value the two share does not parse,
   neither is selected.) *)
C1_AnnualReportFormSelected ==
    \A i, j \in 1..Len(seen) :
        (/\ i # j
         /\ IsAnnualEntry(seen[i]) /\ IsAnnualEntry(seen[j])
         /\ DifferOnlyInForm(seen[i], seen[j])
         /\ IsAnnualReport(seen[i].form) /\ ~IsAnnualReport(seen[j].form))
        => LET y == seen[i].fy[1] IN
           IF IsParseable(seen[i])
           THEN /\ yearly_data_for_tag[y] # None
                /\ IsAnnualReport(Best(y).form)
                /\ Best(y).idx # j
                /\ Len(seen) = 2 => Best(y).idx = i
           ELSE yearly_data_for_tag[y] # None => Best(y).idx \notin {i, j}

(* The 10-K stands after the other form and is the selected entry. *)
C1_Witness ==
    /\ Len(seen) = 2
    /\ IsParseable(seen[1]) /\ IsParseable(seen[2])
    /\ DifferOnlyInForm(seen[2], seen[1])
    /\ IsAnnualReport(seen[2].form) /\ ~IsAnnualReport(seen[1].form)
    /\ yearly_data_for_tag[2020] # None
    /\ Best(2020).idx = 2

(* C2: the entry selected for a fiscal year is one of the parseable annual
   entries of the year, and no parseable annual entry of the year in the same
   form-priority class has a later filed date, whatever the order and the
   number of the entries; a year with a parseable annual entry has a selected
   entry. *)
C2_LatestFiledSelected ==
    \A y \in Years :
        /\ (\E i \in 1..Len(seen) : IsParseable(seen[i]) /\ seen[i].fy = Some(y))
              => yearly_data_for_tag[y] # None
        /\ yearly_data_for_tag[y] # None =>
              /\ Best(y).idx \in 1..Len(seen)
              /\ IsParseable(seen[Best(y).idx])
              /\ seen[Best(y).idx].fy = Some(y)
              /\ seen[Best(y).idx].form = Best(y).form
              /\ parse_date(seen[Best(y).idx].filed) = Some(Best(y).filed_date)
              /\ \A i \in 1..Len(seen) :
                    (/\ IsParseable(seen[i])
                     /\ seen[i].fy = Some(y)
                     /\ IsAnnualReport(seen[i].form) = IsAnnualReport(Best(y).form))
                    => parse_date(seen[i].filed)[1] <= Best(y).filed_date

(* Three parseable entries of one class, the latest filed in the middle. *)
C2_Witness ==
    /\ Len(seen) = 3
    /\ \A i \in 1..3 : IsParseable(seen[i]) /\ seen[i].fy = Some(2020)
                         /\ ~IsAnnualReport(seen[i].form)
    /\ seen[1].filed = "2021-02-01" /\ seen[2].filed = "2021-03-01"
    /\ seen[3].filed = "2021-02-01"
    /\ yearly_data_for_tag[2020] # None
    /\ Best(2020).idx = 2

(* The candidate tag of least index that is a key of the facts. *)
FirstPresent(tags, kinds) ==
    LET P == {i \in 1..Len(tags) : kinds[tags[i]] # "absent"}
    IN IF P = {} THEN None ELSE Some(tags[CHOOSE i \in P : \A j \in P : i <= j])

(* C3: the tag used for a concept is the first candidate tag of DESIRED_TAGS
   that the facts hold, and every value written into a year record for the
   concept is read from that tag: a record holds a value of the concept only
   with that origin, also in a company whose chosen tag gives no value for a
   year or none at all. *)
C3_SingleTagPerConcept ==
    /\ [](/\ pc = "entries" => used_full_tag = FirstPresent(CurrentTags, tagKind)
          /\ \A y \in Years : \A col \in Columns :
                origin[y][col] = None <=>
                    (annual_results[y] = None \/ annual_results[y][1].vals[col] = None))
    /\ [][\A y \in Years : \A k \in 1..Len(ConceptOrder) :
            LET col == camel_to_snake(ConceptOrder[k]) IN
            (origin'[y][col] # origin[y][col]
                \/ (annual_results'[y] # None
                      /\ annual_results'[y][1].vals[col] # None
                      /\ (annual_results[y] = None
                            \/ annual_results'[y][1].vals[col] # annual_results[y][1].vals[col])))
            => /\ k = ci
               /\ origin'[y][col] = FirstPresent(DESIRED_TAGS[ConceptOrder[k]], tagKind)
               /\ origin'[y][col] # None]_vars

(* Both tags of the first concept hold data; the first one gave a value for
   2020 and none for 2021, and 2021 stays without a value. *)
C3_Witness ==
    /\ ci = 2 /\ pc = "concept"
    /\ \A t \in DOMAIN tagKind : tagKind[t] = "USD"
    /\ DOMAIN tagKind = TagSet(DESIRED_TAGS.OperatingCashFlow)
    /\ origin[2020]["operating_cash_flow"] = Some(DESIRED_TAGS.OperatingCashFlow[1])
    /\ origin[2021]["operating_cash_flow"] = None

---------------------------------------------------------------------------
(* process_company_facts as one call, over the facts of a company. *)

(* A loop that takes the entries from the last to the first. *)
RECURSIVE ReadEntries_Reversed(_, _, _, _)
ReadEntries_Reversed(yd, unit_data, i, is_share_metric) ==
    IF i > Len(unit_data) THEN yd
    ELSE ReadEntries_Reversed(
            EntryStep(yd, unit_data[Len(unit_data) + 1 - i], Len(unit_data) + 1 - i,
                      is_share_metric),
            unit_data, i + 1, is_share_metric)

RECURSIVE ReadEntries(_, _, _, _)
ReadEntries(yd, unit_data, i, is_share_metric) ==
    IF i > Len(unit_data) THEN yd
    ELSE ReadEntries(EntryStep(yd, unit_data[i], i, is_share_metric), unit_data, i + 1,
                     is_share_metric)

(* 'shares' in db_col_snake *)
IsShareMetric(db_col_snake) == db_col_snake \in {"shares_outstanding"}

RECURSIVE ResolveConcepts(_, _, _)
ResolveConcepts(facts, results, k) ==
    IF k > Len(ConceptOrder) THEN results
    ELSE LET key == ConceptOrder[k]
             possible_tags == DESIRED_TAGS[key]
             kinds == [t \in TagSet(possible_tags) |-> facts[t].kind]
             tag == FindTag(possible_tags, kinds, 1)
             db_col_snake == camel_to_snake(key)
         IN IF ~HasUnitData(kinds, tag) THEN ResolveConcepts(facts, results, k + 1)
            ELSE ResolveConcepts(facts,
                    Integrate(results, db_col_snake,
                              ReadEntries(NoYearly, facts[tag[1]].entries, 1,
                                          IsShareMetric(db_col_snake))),
                    k + 1)

process_company_facts(company_data) == ResolveConcepts(company_data, NoYearly, 1)

---------------------------------------------------------------------------
(* fetch_sec_annual_financials.py, __main__: the ticker list, the company
   loop, the merging loop. *)

(* Bounds: the length of the fetched ticker list. *)
MaxTickers == 3

(* str(info['cik_str']) and int(cik_str) *)
PyStr(n) == CASE n = 1 -> "1" [] n = 2 -> "2"
PyInt(text) == CASE text = "1" -> 1 [] text = "2" -> 2

(* The entries of the SEC's list; one lacks a key of the three. *)
TickerInfos ==
    {[cik_str |-> 1, ticker |-> "AAA", complete |-> TRUE],
     [cik_str |-> 1, ticker |-> "AAB", complete |-> TRUE],
     [cik_str |-> 2, ticker |-> "BBB", complete |-> TRUE],
     [cik_str |-> 2, ticker |-> "BBX", complete |-> FALSE]}

TickerLists == UNION {[1..n -> TickerInfos] : n \in 0..MaxTickers}

(* A dict assignment that adds an item whether or not the key is there. *)
DictSet_Append(d, key, value) == Append(d, [key |-> key, value |-> value])

(* d[key] = value on a dict kept as the sequence of its items in insertion
   order: a key that is there keeps its place and takes the value. *)
DictSet(d, key, value) ==
    IF \E i \in 1..Len(d) : d[i].key = key
    THEN [i \in 1..Len(d) |->
            IF d[i].key = key THEN [key |-> key, value |-> value] ELSE d[i]]
    ELSE Append(d, [key |-> key, value |-> value])

(* Lines 455-461: the dict comprehension over the ticker list. *)
RECURSIVE all_companies(_, _, _)
all_companies(data, i, d) ==
    IF i > Len(data) THEN d
    ELSE IF ~data[i].complete THEN all_companies(data, i + 1, d)
    ELSE all_companies(data, i + 1,
                       DictSet(d, PyStr(data[i].cik_str), [ticker |-> data[i].ticker]))

(* One annual 10-K entry. *)
Fact(fy, text) ==
    [fy |-> Some(fy), fp |-> "FY", form |-> "10-K", filed |-> "2021-03-01",
     val |-> Some([kind |-> "num", text |-> text]), end |-> "2021-01-31"]

AllTags == UNION {TagSet(DESIRED_TAGS[ConceptOrder[k]]) : k \in 1..Len(ConceptOrder)}

(* Company facts with the us-gaap tags of the two concepts. *)
FactsDoc(ocf, capex) ==
    [t \in AllTags |->
        IF t = DESIRED_TAGS.OperatingCashFlow[1] /\ ocf # <<>>
            THEN [kind |-> "USD", entries |-> ocf]
        ELSE IF t = DESIRED_TAGS.CapitalExpenditures[1] /\ capex # <<>>
            THEN [kind |-> "USD", entries |-> capex]
        ELSE [kind |-> "absent", entries |-> <<>>]]

SampleFacts ==
    {FactsDoc(<<Fact(2020, "100")>>, <<Fact(2020, "-30")>>),
     FactsDoc(<<Fact(2020, "100"), Fact(2021, "7")>>, <<Fact(2020, "30")>>),
     FactsDoc(<<>>, <<Fact(2021, "30")>>),
     FactsDoc(<<>>, <<>>)}

YearOrder == <<2020, 2021>>

(* sorted(annual_data_by_year.items()): the years that have a record. *)
SortedYears(data) == SelectSeq(YearOrder, LAMBDA y : data[y] # None)

(* The free cash flow as a sum. *)
calculated_fcf_Sum(ocf, capex) ==
    IF ocf # None /\ capex # None THEN Some(ocf[1] + capex[1]) ELSE None

(* Line 529 *)
calculated_fcf(ocf, capex) ==
    IF ocf # None /\ capex # None THEN Some(ocf[1] - capex[1]) ELSE None

(* Lines 526-544: the record built for one year. *)
RecordFor(cik, ticker, year, data_for_year) ==
    LET ocf == data_for_year.vals["operating_cash_flow"]
        capex == data_for_year.vals["capital_expenditures"]
    IN [cik |-> cik, year |-> year, ticker |-> ticker,
        operating_cash_flow |-> ocf, capital_expenditures |-> capex,
        calculated_free_cash_flow |-> calculated_fcf(ocf, capex)]

(* Line 549: a commit at every 50th merged year of a company. *)
CommitEvery == 50

RowKeys(records) == {<<records[i].cik, records[i].year>> : i \in 1..Len(records)}

(* The --cik argument: none, a CIK of the list, a CIK that is not in it. *)
TargetCiks == {None, Some("1"), Some("3")}

(* Lines 468-479: the company of --cik when it is in the list (the program
   exits when it is not), every company without the argument. *)
SelectCompanies(d, target_cik) ==
    IF target_cik = None THEN d
    ELSE SelectSeq(d, LAMBDA item : item.key = target_cik[1])

(* Lines 443-479: the ticker list is fetched and made into the list of
   companies; without a list, or with an empty one, the program exits. *)
FetchTickerList ==
    /\ prog = "fetch_sec_annual_financials"
    /\ mpc = "start"
    /\ \E data \in {None} \cup {Some(l) : l \in TickerLists}, target_cik \in TargetCiks :
          /\ company_tickers_data' = data
          /\ IF data = None \/ data[1] = <<>> THEN
                /\ companies_to_process' = <<>>
                /\ mpc' = "done"
             ELSE
                /\ companies_to_process' =
                      SelectCompanies(all_companies(data[1], 1, <<>>), target_cik)
                /\ mpc' = IF companies_to_process' = <<>> THEN "done" ELSE "company"
    /\ UNCHANGED <<processed_count, annual_data_by_year, years_left,
                   years_merged_count, merged, session, sec_db>>
    /\ UNCHANGED <<prog, factVars, fmpVars, scrVars, trVars, newVars>>

(* Lines 493-522, 566-574: the next company; its facts are fetched and
   processed. Without facts or without annual data the loop goes on. *)
FetchCompany ==
    /\ prog = "fetch_sec_annual_financials"
    /\ mpc = "company"
    /\ processed_count < Len(companies_to_process)
    /\ processed_count' = processed_count + 1
    /\ \E company_facts_json \in {None} \cup {Some(f) : f \in SampleFacts} :
          LET data == IF company_facts_json = None THEN NoYearly
                      ELSE process_company_facts(company_facts_json[1])
          IN IF SortedYears(data) = <<>> THEN
                /\ UNCHANGED <<annual_data_by_year, years_left, mpc>>
             ELSE
                /\ annual_data_by_year' = data
                /\ years_left' = SortedYears(data)
                /\ mpc' = "years"
    /\ years_merged_count' = 0
    /\ UNCHANGED <<company_tickers_data, companies_to_process, merged, session, sec_db>>
    /\ UNCHANGED <<prog, factVars, fmpVars, scrVars, trVars, newVars>>

(* Lines 524-556: one year of the merging loop. The record is merged, and
   committed with the pending ones at every 50th; an error rolls the session
   back. *)
MergeYear ==
    /\ prog = "fetch_sec_annual_financials"
    /\ mpc = "years"
    /\ years_left # <<>>
    /\ LET item == companies_to_process[processed_count]
           year == Head(years_left)
           record == RecordFor(PyInt(item.key), item.value.ticker, year,
                               annual_data_by_year[year][1])
       IN \E ok \in BOOLEAN :
             IF ok THEN
                /\ merged' = Append(merged, record)
                /\ years_merged_count' = years_merged_count + 1
                /\ IF years_merged_count' % CommitEvery = 0
                   THEN /\ sec_db' = sec_db \cup RowKeys(Append(session, record))
                        /\ session' = <<>>
                   ELSE /\ session' = Append(session, record)
                        /\ UNCHANGED sec_db
             ELSE
                /\ session' = <<>>
                /\ UNCHANGED <<merged, years_merged_count, sec_db>>
    /\ years_left' = Tail(years_left)
    /\ UNCHANGED <<mpc, company_tickers_data, companies_to_process, processed_count,
                   annual_data_by_year>>
    /\ UNCHANGED <<prog, factVars, fmpVars, scrVars, trVars, newVars>>

(* Lines 558-565: the final commit for the company, or its rollback. *)
CommitCompany ==
    /\ prog = "fetch_sec_annual_financials"
    /\ mpc = "years"
    /\ years_left = <<>>
    /\ \E ok \in BOOLEAN :
          /\ sec_db' = IF ok THEN sec_db \cup RowKeys(session) ELSE sec_db
          /\ session' = <<>>
    /\ mpc' = "company"
    /\ UNCHANGED <<company_tickers_data, companies_to_process, processed_count,
                   annual_data_by_year, years_left, years_merged_count, merged>>
    /\ UNCHANGED <<prog, factVars, fmpVars, scrVars, trVars, newVars>>

(* Lines 576-597: the loop is over. *)
FinishRun ==
    /\ prog = "fetch_sec_annual_financials"
    /\ mpc = "company"
    /\ processed_count = Len(companies_to_process)
    /\ mpc' = "done"
    /\ UNCHANGED <<company_tickers_data, companies_to_process, processed_count,
                   annual_data_by_year, years_left, years_merged_count, merged,
                   session, sec_db>>
    /\ UNCHANGED <<prog, factVars, fmpVars, scrVars, trVars, newVars>>

---------------------------------------------------------------------------
(* ImportAnnualData.py: process_ticker and the loop of main. *)

(* Bounds: statements in one FMP answer, raw tickers from TradingView. *)
MaxStmts == 2
MaxRaw == 2

(* The statements FMP returns: calendarYear and date. *)
Statements ==
    {[calendarYear |-> "2020",   date |-> "2020-12-31"],
     [calendarYear |-> "2021.0", date |-> "2021-12-31"],
     [calendarYear |-> "",       date |-> "2020-12-31"],
     [calendarYear |-> "FY",     date |-> "n/a"]}

(* Lines 163-186: the year of a statement; calendarYear as int(float()) when
   it is there and parses, else the first part of date, else 0. *)
extract_year(stmt_dict) ==
    CASE stmt_dict.calendarYear = "2020"   -> 2020
      [] stmt_dict.calendarYear = "2021.0" -> 2021
      [] OTHER -> CASE stmt_dict.date = "2020-12-31" -> 2020
                    [] stmt_dict.date = "2021-12-31" -> 2021
                    [] OTHER -> 0

(* A data frame is the sequence of its rows; a row has its index (year) and,
   for each of the three statements, the position in the FMP answer of the
   statement its columns come from. *)
FrameRow(year, col, i) ==
    [year |-> year,
     is |-> IF col = "is" THEN Some(i) ELSE None,
     cf |-> IF col = "cf" THEN Some(i) ELSE None,
     bs |-> IF col = "bs" THEN Some(i) ELSE None]

(* Lines 190, 193, 196: the rows of the statements whose year is above 0. *)
RECURSIVE StatementRows(_, _, _)
StatementRows(stmts, col, i) ==
    IF i > Len(stmts) THEN <<>>
    ELSE (IF extract_year(stmts[i]) > 0
          THEN <<FrameRow(extract_year(stmts[i]), col, i)>> ELSE <<>>)
         \o StatementRows(stmts, col, i + 1)

(* df[~df.index.duplicated(keep='last')] *)
DropDuplicated(df) ==
    SelectSeq(df, LAMBDA r :
        \E i \in 1..Len(df) :
            df[i] = r /\ \A j \in (i + 1)..Len(df) : df[j].year # r.year)

JoinRow(l, r) ==
    [year |-> l.year,
     is |-> IF l.is # None THEN l.is ELSE r.is,
     cf |-> IF l.cf # None THEN l.cf ELSE r.cf,
     bs |-> IF l.bs # None THEN l.bs ELSE r.bs]

(* The rows of left.join(right, how='outer') for one index value: every
   pairing of the rows of the two sides, the rows of one side when the other
   has none. *)
JoinYear(left, right, y) ==
    LET ls == SelectSeq(left, LAMBDA r : r.year = y)
        rs == SelectSeq(right, LAMBDA r : r.year = y)
    IN IF rs = <<>> THEN ls
       ELSE IF ls = <<>> THEN rs
       ELSE [k \in 1..(Len(ls) * Len(rs)) |->
                JoinRow(ls[((k - 1) \div Len(rs)) + 1], rs[((k - 1) % Len(rs)) + 1])]

(* An outer join, its index in ascending order. *)
RECURSIVE OuterJoin(_, _, _)
OuterJoin(left, right, k) ==
    IF k > Len(YearOrder) THEN <<>>
    ELSE JoinYear(left, right, YearOrder[k]) \o OuterJoin(left, right, k + 1)

(* Lines 150-208: None (here the empty frame, which main treats alike) when a
   statement list is missing or empty or holds no valid year; else the three
   frames, each without duplicated years, joined and sorted by year. *)
process_ticker(income_statements, balance_sheets, cash_flow_statements) ==
    IF income_statements = None \/ balance_sheets = None \/ cash_flow_statements = None
    THEN <<>>
    ELSE LET is_data == StatementRows(income_statements[1], "is", 1)
             bs_data == StatementRows(balance_sheets[1], "bs", 1)
             cf_data == StatementRows(cash_flow_statements[1], "cf", 1)
         IN IF is_data = <<>> \/ bs_data = <<>> \/ cf_data = <<>> THEN <<>>
            ELSE LET is_df == DropDuplicated(is_data)
                     bs_df == DropDuplicated(bs_data)
                     cf_df == DropDuplicated(cf_data)
                 IN OuterJoin(OuterJoin(is_df, cf_df, 1), bs_df, 1)

(* What fetch_fmp_data returns: None, or a list of statements. *)
FmpAnswers ==
    {None} \cup {Some(l) : l \in UNION {[1..n -> Statements] : n \in 0..MaxStmts}}

(* The cash flow statements drawn have a calendarYear that parses. *)
CashFlowAnswers ==
    {None} \cup {Some(l) : l \in UNION {[1..n -> {st \in Statements :
                                                   st.calendarYear \in {"2020", "2021.0"}}] :
                                         n \in 0..MaxStmts}}

(* The balance sheets drawn: none, one of 2020, one without a valid year. *)
BalanceSheetAnswers ==
    {None,
     Some(<<[calendarYear |-> "2020", date |-> "2020-12-31"]>>),
     Some(<<[calendarYear |-> "FY", date |-> "n/a"]>>)}

(* The raw tickers of TradingView. *)
RawTickers == {"NASDAQ:AAA", "NYSE:AAA", "BBB", "LSE:CCC"}

(* Lines 104-114: the symbol of a raw ticker, None when it is skipped. *)
CleanSymbol(ticker_raw) ==
    CASE ticker_raw = "NASDAQ:AAA" -> Some("AAA")
      [] ticker_raw = "NYSE:AAA"   -> Some("AAA")
      [] ticker_raw = "BBB"        -> Some("BBB")
      [] ticker_raw = "LSE:CCC"    -> None

SymbolOrder == <<"AAA", "BBB">>

(* Lines 102-117: sorted(list(cleaned_tickers)) *)
CleanedTickers(all_tickers_with_exchange) ==
    LET cleaned_tickers ==
            {CleanSymbol(all_tickers_with_exchange[i])[1] :
                i \in {j \in 1..Len(all_tickers_with_exchange) :
                          CleanSymbol(all_tickers_with_exchange[j]) # None}}
    IN SelectSeq(SymbolOrder, LAMBDA t : t \in cleaned_tickers)

RawLists == UNION {[1..n -> RawTickers] : n \in 0..MaxRaw}

(* Lines 271-275: the tickers are fetched; without any, main returns. *)
GetStockTickers ==
    /\ prog = "ImportAnnualData"
    /\ fpc = "start"
    /\ \E raw \in RawLists :
          /\ stock_tickers' = CleanedTickers(raw)
          /\ fpc' = IF stock_tickers' = <<>> THEN "done" ELSE "ticker"
    /\ UNCHANGED <<ticker_i, combined_df, rows_done, upserted, fmp_db,
                   skipped_fresh_count, failed_rows>>
    /\ UNCHANGED <<prog, factVars, secVars, scrVars, trVars, newVars>>

(* Lines 277-299: the next ticker has rows in the table, their latest update
   is after the refresh threshold, and the ticker is skipped. *)
SkipFreshTicker ==
    /\ prog = "ImportAnnualData"
    /\ fpc = "ticker"
    /\ ticker_i < Len(stock_tickers)
    /\ \E y \in Years : <<stock_tickers[ticker_i + 1], y>> \in fmp_db
    /\ ticker_i' = ticker_i + 1
    /\ skipped_fresh_count' = skipped_fresh_count + 1
    /\ UNCHANGED <<fpc, stock_tickers, combined_df, rows_done, upserted, fmp_db,
                   failed_rows>>
    /\ UNCHANGED <<prog, factVars, secVars, scrVars, trVars, newVars>>

(* Lines 277-302, 319-321: the next ticker is fetched and processed; without
   a frame the loop goes on. *)
ProcessTicker ==
    /\ prog = "ImportAnnualData"
    /\ fpc = "ticker"
    /\ ticker_i < Len(stock_tickers)
    /\ ticker_i' = ticker_i + 1
    /\ \E income_statements \in FmpAnswers, balance_sheets \in BalanceSheetAnswers,
          cash_flow_statements \in CashFlowAnswers :
          /\ combined_df' =
                process_ticker(income_statements, balance_sheets, cash_flow_statements)
          /\ fpc' = IF combined_df' = <<>> THEN "ticker" ELSE "rows"
    /\ rows_done' = 0
    /\ UNCHANGED <<stock_tickers, upserted, fmp_db, skipped_fresh_count, failed_rows>>
    /\ UNCHANGED <<prog, factVars, secVars, scrVars, trVars, newVars>>

(* Lines 304-317 and upsert_annual_data: the next row of the frame is
   upserted and committed, or the upsert fails and is rolled back. *)
UpsertRow ==
    /\ prog = "ImportAnnualData"
    /\ fpc = "rows"
    /\ rows_done < Len(combined_df)
    /\ rows_done' = rows_done + 1
    /\ LET row == <<stock_tickers[ticker_i], combined_df[rows_done + 1].year>> IN
          /\ upserted' = Append(upserted, row)
          /\ \E success \in BOOLEAN :
                /\ fmp_db' = IF success THEN fmp_db \cup {row} ELSE fmp_db
                /\ failed_rows' = IF success THEN failed_rows \ {row}
                                  ELSE failed_rows \cup {row}
    /\ fpc' = IF rows_done' = Len(combined_df) THEN "ticker" ELSE "rows"
    /\ UNCHANGED <<stock_tickers, ticker_i, combined_df, skipped_fresh_count>>
    /\ UNCHANGED <<prog, factVars, secVars, scrVars, trVars, newVars>>

(* Lines 324-338: the loop is over. *)
FinishImport ==
    /\ prog = "ImportAnnualData"
    /\ fpc = "ticker"
    /\ ticker_i = Len(stock_tickers)
    /\ fpc' = "done"
    /\ UNCHANGED <<stock_tickers, ticker_i, combined_df, rows_done, upserted, fmp_db,
                   skipped_fresh_count, failed_rows>>
    /\ UNCHANGED <<prog, factVars, secVars, scrVars, trVars, newVars>>

(* The table of ImportAnnualData as earlier runs left it. *)
EarlierRows == {{}, {<<"AAA", 2020>>}}

ImportInit ==
    /\ FactsStart /\ SecStart /\ ScrStart /\ TrStart /\ NewStart
    /\ \/ prog = "fetch_sec_annual_financials" /\ FmpStart
       \/ prog = "ImportAnnualData" /\ \E db \in EarlierRows : FmpStartWith(db)

ImportNext ==
    \/ FetchTickerList \/ FetchCompany \/ MergeYear \/ CommitCompany \/ FinishRun
    \/ GetStockTickers \/ SkipFreshTicker \/ ProcessTicker \/ UpsertRow \/ FinishImport

SpecImport == ImportInit /\ [][ImportNext]_vars

---------------------------------------------------------------------------
(* Properties of the two import runs. *)

NoTwoAlike(rows) == \A i, j \in 1..Len(rows) : i # j => rows[i] # rows[j]

KeysOf(records) == [i \in 1..Len(records) |-> <<records[i].cik, records[i].year>>]

(* C4: in one run no two of the records given to persistence have the same
   entity and fiscal year: the records merged by fetch_sec_annual_financials
   are one per (cik, year) also when the ticker list names a CIK more than
   once, the frame of process_ticker has one row per year, and the rows
   upserted by ImportAnnualData are one per (ticker, year). *)
C4_OneRecordPerEntityYear ==
    /\ NoTwoAlike(KeysOf(merged))
    /\ NoTwoAlike([i \in 1..Len(companies_to_process) |-> companies_to_process[i].key])
    /\ NoTwoAlike([i \in 1..Len(combined_df) |-> combined_df[i].year])
    /\ NoTwoAlike(upserted)

(* The ticker list names CIK 1 twice, and the run merged its two years. *)
C4_Witness ==
    /\ mpc = "done"
    /\ company_tickers_data # None
    /\ \E i, j \in 1..Len(company_tickers_data[1]) :
          /\ i < j
          /\ company_tickers_data[1][i].cik_str = 1 /\ company_tickers_data[1][i].complete
          /\ company_tickers_data[1][j].cik_str = 1 /\ company_tickers_data[1][j].complete
    /\ {<<1, 2020>>, <<1, 2021>>} \subseteq RowKeys(merged)

(* C5 as stated: with both operands present the value is their sum. *)
C5_SumOfOperands ==
    \A i \in 1..Len(merged) :
        LET r == merged[i] IN
        (r.operating_cash_flow # None /\ r.capital_expenditures # None)
        => r.calculated_free_cash_flow =
              Some(r.operating_cash_flow[1] + r.capital_expenditures[1])

(* C5: in a record of fetch_sec_annual_financials the calculated free cash
   flow is the operating cash flow minus the capital expenditures when both
   are present, and absent when either is absent: 100 and -30 give 130, 100
   and 30 give 70. *)
C5_DifferenceOfOperands ==
    \A i \in 1..Len(merged) :
        LET r == merged[i] IN
        IF r.operating_cash_flow # None /\ r.capital_expenditures # None
        THEN r.calculated_free_cash_flow =
                Some(r.operating_cash_flow[1] - r.capital_expenditures[1])
        ELSE r.calculated_free_cash_flow = None

(* A merged record with operating cash flow 100 and capital expenditures -30,
   whose calculated free cash flow is 130. *)
C5_Witness ==
    \E i \in 1..Len(merged) :
        /\ merged[i].operating_cash_flow = Some(100)
        /\ merged[i].capital_expenditures = Some(-30)
        /\ merged[i].calculated_free_cash_flow = Some(130)

---------------------------------------------------------------------------
(* The screening path: ScannAnnualData_FCF.py, importData.py with
   ScreenByEBIT_FCF_DB.py, simfin/import_simfin_financials.py. *)

(* Bound: the annual rows of the ticker. *)
MaxYears == 5

(* ScannAnnualData_FCF.py, lines 10-16 *)
SCREENING_YEARS == 5
MIN_DATA_YEARS_REQUIRED == 5
MIN_POSITIVE_EBITDA_YEARS == 4
MIN_POSITIVE_FCF_YEARS == 3
MIN_EBITDA_GROWTH_PERCENT == 15

(* importData.py, line 14 *)
YEARS_HISTORY == 5

(* ScreenByEBIT_FCF_DB.py, lines 9-12 *)
YEARS_HISTORY_FILTER == 5
DB_MIN_POSITIVE_EBITDA_YEARS == 3
DB_MIN_POSITIVE_FCF_YEARS == 3
DB_MIN_EBITDA_GROWTH_PERCENT == 15

(* The EBITDA of a year: absent, or a number of a company that reports small
   numbers, or one of a company that reports large ones. *)
SmallEbitda == {None, Some(-5), Some(0), Some(10)}
LargeEbitda == {Some(160000), Some(279841), Some(320000)}

(* A series that grows every year. *)
GrowingEbitda == <<Some(10), Some(12), Some(14), Some(16), Some(20)>>

EbitdaSeries ==
    UNION {[1..n -> SmallEbitda] \cup [1..n -> LargeEbitda] : n \in 0..MaxYears}
    \cup {GrowingEbitda}

(* The cash flow columns of the years of a ticker. *)
FlowPatterns == {"computed", "capex_gap", "ocf_gap", "negative3", "zero2",
                 "direct", "direct_negative", "no_capex",
                 "direct_gap", "direct_once"}

Flow(fcf, ocf, capex) ==
    [free_cash_flow |-> fcf, operating_cash_flow |-> ocf, capital_expenditure |-> capex]

(* The cash flow columns of year i under a pattern. *)
FlowAt(p, i) ==
    CASE p = "capex_gap" /\ i = 2   -> Flow(None, Some(100), None)
      [] p = "ocf_gap" /\ i = 2     -> Flow(None, None, Some(-30))
      [] p = "negative3" /\ i <= 3  -> Flow(None, Some(10), Some(-30))
      [] p = "zero2" /\ i <= 2      -> Flow(None, Some(30), Some(-30))
      [] p = "direct"               -> Flow(Some(3), Some(100), Some(-30))
      [] p = "direct_negative"      -> Flow(Some(-3), Some(100), Some(-30))
      [] p = "no_capex"             -> Flow(None, Some(100), None)
      [] p = "direct_gap" /\ i = 2  -> Flow(None, Some(100), Some(-30))
      [] p = "direct_gap" /\ i # 2  -> Flow(Some(3), Some(100), Some(-30))
      [] p = "direct_once" /\ i = 1 -> Flow(Some(3), Some(100), Some(-30))
      [] OTHER                      -> Flow(None, Some(100), Some(-30))

(* The rows of a ticker, oldest year first; every income statement has
   operatingIncome 8 and depreciationAndAmortization 2. *)
AnnualRows(ebitdas, p) ==
    [i \in 1..Len(ebitdas) |->
        [year |-> i, ebitda |-> ebitdas[i], op_income |-> Some(8), da |-> Some(2),
         free_cash_flow |-> FlowAt(p, i).free_cash_flow,
         operating_cash_flow |-> FlowAt(p, i).operating_cash_flow,
         capital_expenditure |-> FlowAt(p, i).capital_expenditure]]

(* The rows of a ticker for which annual_financial_data has no record of
   year `missing` (0: every year has one): the years from it on are one
   later. *)
MissingYears == {0, 3}
WithoutYear(df, missing) ==
    [i \in 1..Len(df) |->
        [df[i] EXCEPT !.year = IF missing # 0 /\ i >= missing THEN i + 1 ELSE i]]

(* df.dropna(): the rows with both EBITDA and FCF. *)
DropNa(df) == SelectSeq(df, LAMBDA r : r.ebitda # None /\ r.fcf # None)

(* df.tail(n), df.iloc[-n:] *)
LastRows(df, n) == IF Len(df) <= n THEN df ELSE SubSeq(df, Len(df) - n + 1, Len(df))

(* A count of the rows with a value of zero or more. *)
CountPositive_OrZero(df, col) ==
    Cardinality({i \in 1..Len(df) : df[i][col][1] >= 0})

(* (df[col] > 0).sum() *)
CountPositive(df, col) ==
    Cardinality({i \in 1..Len(df) : df[i][col][1] > 0})

RECURSIVE Power(_, _)
Power(b, e) == IF e = 0 THEN 1 ELSE b * Power(b, e - 1)

(* a/b < c/d for a, c >= 0 and b, d > 0, by the integer parts and then the
   reciprocals of the remainders, without a product. *)
RECURSIVE RatLess(_, _, _, _)
RatLess(a, b, c, d) ==
    IF a \div b # c \div d THEN a \div b < c \div d
    ELSE IF c % d = 0 THEN FALSE
    ELSE IF a % b = 0 THEN TRUE
    ELSE RatLess(d, c % d, b, a % b)

(* The comparison in doubles at latest/earliest = (1 + min/100)^num_periods:
   for 15.0 and 4 periods, (279841/160000) ** 0.25 is the double next below
   1.15, and (that - 1) * 100 is 14.999999999999991, which is not >= 15.0. *)
AtRoundedBoundary == FALSE

(* ebitda_cagr >= min_percent, where ebitda_cagr is the double
   ((latest / earliest) ** (1 / num_periods) - 1) * 100, kept here as the
   three numbers it is computed from. Off the boundary the double lies on the
   side of the real number for the values drawn. *)
CagrAtLeast(cagr, min_percent) ==
    LET num == Power(100 + min_percent, cagr.num_periods)
        den == Power(100, cagr.num_periods)
    IN IF RatLess(num, den, cagr.latest, cagr.earliest) THEN TRUE
       ELSE IF RatLess(cagr.latest, cagr.earliest, num, den) THEN FALSE
       ELSE AtRoundedBoundary

(* A check that lets a window one row short go on. *)
InsufficientYears_OneShort(df, required) == Len(df) < required - 1

(* len(valid_years_df) < MIN_DATA_YEARS_REQUIRED, len(combined_df) < YEARS_HISTORY *)
InsufficientYears(df, required) == Len(df) < required

Trend(cagr, turnaround) == [ebitda_cagr |-> cagr, is_turnaround |-> turnaround]

Cagr(latest, earliest, num_periods) ==
    Some([latest |-> latest, earliest |-> earliest, num_periods |-> num_periods])

(* A split that takes a start of exactly zero for a positive one. *)
ScannTrend_ZeroStart(valid_years_df) ==
    LET earliest_ebitda == valid_years_df[1].ebitda[1]
        latest_ebitda == valid_years_df[Len(valid_years_df)].ebitda[1]
    IN IF Len(valid_years_df) < 2 THEN Trend(None, FALSE)
       ELSE IF earliest_ebitda < 0 THEN Trend(None, latest_ebitda > 0)
       ELSE IF latest_ebitda <= 0 THEN Trend(None, FALSE)
       ELSE IF earliest_ebitda > 0
            THEN Trend(Cagr(latest_ebitda, earliest_ebitda, Len(valid_years_df) - 1), FALSE)
            ELSE Trend(None, FALSE)

(* ScannAnnualData_FCF.py, lines 159-185: the four-way split on the EBITDA of
   the first and the last row of the window. *)
ScannTrend(valid_years_df) ==
    LET earliest_ebitda == valid_years_df[1].ebitda[1]
        latest_ebitda == valid_years_df[Len(valid_years_df)].ebitda[1]
    IN IF Len(valid_years_df) < 2 THEN Trend(None, FALSE)
       ELSE IF earliest_ebitda <= 0 THEN Trend(None, latest_ebitda > 0)
       ELSE IF latest_ebitda <= 0 THEN Trend(None, FALSE)
       ELSE Trend(Cagr(latest_ebitda, earliest_ebitda, Len(valid_years_df) - 1), FALSE)

(* Lines 122-124: free_cash_flow is null in more than half of the rows. *)
use_calculated_fcf(group_df) ==
    2 * Cardinality({i \in 1..Len(group_df) : group_df[i].free_cash_flow = None})
        > Len(group_df)

(* Line 127: operating_cash_flow + capital_expenditure.fillna(0); NaN where
   the operating cash flow is null. *)
fcf_calculated(row) ==
    IF row.operating_cash_flow = None THEN None
    ELSE Some(row.operating_cash_flow[1]
              + (IF row.capital_expenditure = None THEN 0
                 ELSE row.capital_expenditure[1]))

(* Lines 120-133: the rows with the FCF column that is used. *)
WithFcf(group_df) ==
    [i \in 1..Len(group_df) |->
        [year |-> group_df[i].year, ebitda |-> group_df[i].ebitda,
         fcf |-> IF use_calculated_fcf(group_df) THEN fcf_calculated(group_df[i])
                 ELSE group_df[i].free_cash_flow]]

(* Line 138 *)
ValidYears(group_df) == LastRows(DropNa(WithFcf(group_df)), SCREENING_YEARS)

Verdict(status, ebitda_count, fcf_count, trend) ==
    [status |-> status,
     positive_ebitda_count |-> ebitda_count,
     positive_fcf_count |-> fcf_count,
     ebitda_cagr |-> IF trend = None THEN None ELSE trend[1].ebitda_cagr,
     is_turnaround |-> IF trend = None THEN None ELSE Some(trend[1].is_turnaround)]

(* Lines 136-197: the tests of one ticker, each evaluated only when the ones
   before it are met. *)
ScreenTicker(group_df) ==
    LET valid_years_df == ValidYears(group_df)
        positive_ebitda_count == CountPositive(valid_years_df, "ebitda")
        positive_fcf_count == CountPositive(valid_years_df, "fcf")
        trend == ScannTrend(valid_years_df)
        growth_passed ==
            \/ trend.is_turnaround
            \/ /\ trend.ebitda_cagr # None
               /\ CagrAtLeast(trend.ebitda_cagr[1], MIN_EBITDA_GROWTH_PERCENT)
    IN IF InsufficientYears(valid_years_df, MIN_DATA_YEARS_REQUIRED)
       THEN Verdict("insufficient", None, None, None)
       ELSE IF positive_ebitda_count < MIN_POSITIVE_EBITDA_YEARS
       THEN Verdict("failed_ebitda", Some(positive_ebitda_count), None, None)
       ELSE IF positive_fcf_count < MIN_POSITIVE_FCF_YEARS
       THEN Verdict("failed_fcf", Some(positive_ebitda_count), Some(positive_fcf_count), None)
       ELSE Verdict(IF growth_passed THEN "passed" ELSE "failed_growth",
                    Some(positive_ebitda_count), Some(positive_fcf_count), Some(trend))

(* Lines 201-209: the entry of the passed list. *)
PassedEntry(v, valid_years_df) ==
    [positive_ebitda_years |-> v.positive_ebitda_count[1],
     positive_fcf_years |-> v.positive_fcf_count[1],
     ebitda_cagr_percent |-> v.ebitda_cagr,
     is_ebitda_turnaround |-> v.is_turnaround[1],
     years_analyzed |-> Len(valid_years_df)]

(* importData.py, lines 158-160: the summary in its failure state. *)
InitialSummary ==
    [data_period_years |-> YEARS_HISTORY,
     latest_data_year |-> None, earliest_data_year |-> None,
     positive_ebitda_years_count |-> None, positive_fcf_years_count |-> None,
     ebitda_cagr_percent |-> None, is_ebitda_turnaround |-> None,
     ebitda_latest |-> None, ebitda_earliest |-> None, fcf_latest |-> None,
     data_fetch_error |-> TRUE]

(* Lines 214-246: the EBITDA of the income statements when one of them has
   it, else operating income plus depreciation and amortization. *)
EbitdaOf(statements) ==
    IF \E i \in 1..Len(statements) : statements[i].ebitda # None
    THEN [i \in 1..Len(statements) |-> statements[i].ebitda]
    ELSE [i \in 1..Len(statements) |->
            IF statements[i].op_income = None \/ statements[i].da = None THEN None
            ELSE Some(statements[i].op_income[1] + statements[i].da[1])]

(* Lines 249-260: cfo + capex.fillna(0), NaN where cfo is null; the empty
   series when cfo or capex is null in every statement. *)
FcfOf(statements) ==
    IF \/ \A i \in 1..Len(statements) : statements[i].operating_cash_flow = None
       \/ \A i \in 1..Len(statements) : statements[i].capital_expenditure = None
    THEN <<>>
    ELSE [i \in 1..Len(statements) |-> fcf_calculated(statements[i])]

(* Line 270: the frame of the two series. *)
CombinedFrame(statements) ==
    LET ebitda_s == EbitdaOf(statements)
        fcf_s == FcfOf(statements)
    IN [i \in 1..Len(statements) |->
           [year |-> statements[i].year, ebitda |-> ebitda_s[i],
            fcf |-> IF fcf_s = <<>> THEN None ELSE fcf_s[i]]]

(* Lines 291-310: the four-way split on the earliest and the latest EBITDA. *)
SummaryTrend(earliest_ebitda, latest_ebitda) ==
    IF earliest_ebitda <= 0 THEN Trend(None, latest_ebitda > 0)
    ELSE IF latest_ebitda <= 0 THEN Trend(None, FALSE)
    ELSE Trend(Cagr(latest_ebitda, earliest_ebitda, YEARS_HISTORY - 1), FALSE)

(* Lines 155-315: the summary of a ticker from its statements; the failure
   state is returned for empty answers, an empty series, too few years. *)
calculate_financial_summary(statements) ==
    LET clean_df == DropNa(CombinedFrame(statements))
        final_df == LastRows(clean_df, YEARS_HISTORY)
        earliest == final_df[1].ebitda[1]
        latest == final_df[Len(final_df)].ebitda[1]
        trend == SummaryTrend(earliest, latest)
    IN IF statements = <<>> \/ FcfOf(statements) = <<>> THEN InitialSummary
       ELSE IF InsufficientYears(clean_df, YEARS_HISTORY) THEN InitialSummary
       ELSE [data_period_years |-> YEARS_HISTORY,
             latest_data_year |-> Some(final_df[Len(final_df)].year),
             earliest_data_year |-> Some(final_df[1].year),
             positive_ebitda_years_count |-> Some(CountPositive(final_df, "ebitda")),
             positive_fcf_years_count |-> Some(CountPositive(final_df, "fcf")),
             ebitda_cagr_percent |-> trend.ebitda_cagr,
             is_ebitda_turnaround |-> Some(trend.is_turnaround),
             ebitda_latest |-> Some(latest), ebitda_earliest |-> Some(earliest),
             fcf_latest |-> Some(final_df[Len(final_df)].fcf[1]),
             data_fetch_error |-> FALSE]

(* ScreenByEBIT_FCF_DB.py, lines 67-80: the WHERE clause; a comparison with
   NULL is not true. *)
Selected(row) ==
    /\ row.data_fetch_error = FALSE
    /\ row.data_period_years = YEARS_HISTORY_FILTER
    /\ row.positive_ebitda_years_count # None
    /\ row.positive_ebitda_years_count[1] >= DB_MIN_POSITIVE_EBITDA_YEARS
    /\ row.positive_fcf_years_count # None
    /\ row.positive_fcf_years_count[1] >= DB_MIN_POSITIVE_FCF_YEARS
    /\ \/ row.is_ebitda_turnaround = Some(TRUE)
       \/ /\ row.ebitda_cagr_percent # None
          /\ CagrAtLeast(row.ebitda_cagr_percent[1], DB_MIN_EBITDA_GROWTH_PERCENT)

(* simfin/import_simfin_financials.py, lines 92-96 *)
calculate_fcf(cfo_val, capex_val) ==
    IF cfo_val = None THEN None
    ELSE Some(cfo_val[1] + (IF capex_val = None THEN 0 ELSE capex_val[1]))

(* ScannAnnualData_FCF.py, main, lines 260-262: the rows of the ticker are
   read from stock_annual_financials. *)
FetchScreeningData ==
    /\ prog = "ScannAnnualData_FCF"
    /\ spc = "start"
    /\ \E ebitdas \in EbitdaSeries, p \in FlowPatterns, missing \in MissingYears :
          financial_df' = WithoutYear(AnnualRows(ebitdas, p), missing)
    /\ spc' = "fetched"
    /\ UNCHANGED <<frame, verdict, passed_screening, summary, summary_table,
                   db_results, db_data>>
    /\ UNCHANGED <<prog, factVars, secVars, fmpVars, trVars, newVars>>

(* screen_stocks, lines 100-212; without rows it returns the empty list. *)
ScreenStocks ==
    /\ prog = "ScannAnnualData_FCF"
    /\ spc = "fetched"
    /\ spc' = "screened"
    /\ IF financial_df = <<>> THEN
          UNCHANGED <<frame, verdict, passed_screening>>
       ELSE
          LET v == ScreenTicker(financial_df) IN
          /\ frame' = [derived |-> WithFcf(financial_df),
                       window |-> ValidYears(financial_df)]
          /\ verdict' = Some(v)
          /\ passed_screening' =
                IF v.status = "passed"
                THEN Append(passed_screening, PassedEntry(v, ValidYears(financial_df)))
                ELSE passed_screening
    /\ UNCHANGED <<financial_df, summary, summary_table, db_results, db_data>>
    /\ UNCHANGED <<prog, factVars, secVars, fmpVars, trVars, newVars>>

(* importData.py, main, lines 395-407: the summary of the ticker is
   calculated from the statements fetched and written to the table, also in
   its failure state; the write may fail. *)
UpdateSummary ==
    /\ prog = "importData"
    /\ spc = "start"
    /\ \E ebitdas \in EbitdaSeries, p \in FlowPatterns, update_success \in BOOLEAN :
          LET statements == AnnualRows(ebitdas, p) IN
          /\ financial_df' = statements
          /\ frame' = [derived |-> CombinedFrame(statements),
                       window |-> LastRows(DropNa(CombinedFrame(statements)),
                                           YEARS_HISTORY)]
          /\ summary' = Some(calculate_financial_summary(statements))
          /\ summary_table' = IF update_success THEN summary' ELSE summary_table
    /\ spc' = "summarized"
    /\ UNCHANGED <<verdict, passed_screening, db_results, db_data>>
    /\ UNCHANGED <<prog, factVars, secVars, fmpVars, trVars, newVars>>

(* ScreenByEBIT_FCF_DB.py, screen_stocks_from_db, lines 44-110: the query
   over the table. *)
ScreenFromDb ==
    /\ prog = "importData"
    /\ spc = "summarized"
    /\ db_results' = IF summary_table # None /\ Selected(summary_table[1])
                     THEN <<summary_table[1]>> ELSE <<>>
    /\ spc' = "queried"
    /\ UNCHANGED <<financial_df, frame, verdict, passed_screening, summary,
                   summary_table, db_data>>
    /\ UNCHANGED <<prog, factVars, secVars, fmpVars, trVars, newVars>>

(* The cash flow values of a simfin row, after safe_decimal. *)
SimfinCfo == {None, Some(100), Some(0)}
SimfinCapex == {None, Some(-30)}

(* import_simfin_financials.py, main, lines 270-287: the row of a report. *)
BuildSimfinRow ==
    /\ prog = "import_simfin_financials"
    /\ \E cfo \in SimfinCfo, capex \in SimfinCapex :
          db_data' = Some([cash_from_operations |-> cfo,
                           capital_expenditures |-> capex,
                           free_cash_flow |-> calculate_fcf(cfo, capex)])
    /\ UNCHANGED <<spc, financial_df, frame, verdict, passed_screening, summary,
                   summary_table, db_results>>
    /\ UNCHANGED <<prog, factVars, secVars, fmpVars, trVars, newVars>>

ScreenInit ==
    /\ prog \in {"ScannAnnualData_FCF", "importData", "import_simfin_financials"}
    /\ FactsStart /\ SecStart /\ FmpStart /\ ScrStart /\ TrStart /\ NewStart

ScreenNext ==
    \/ FetchScreeningData \/ ScreenStocks
    \/ UpdateSummary \/ ScreenFromDb
    \/ BuildSimfinRow

SpecScreen == ScreenInit /\ [][ScreenNext]_vars

---------------------------------------------------------------------------
(* Properties of the screening path. *)

Screened == prog = "ScannAnnualData_FCF" /\ verdict # None
Summarized == prog = "importData" /\ summary # None
Queried == prog = "importData" /\ spc = "queried"

(* The EBITDA of the oldest and of the newest row of the window. *)
FirstEbitda == frame.window[1].ebitda[1]
LastEbitda == frame.window[Len(frame.window)].ebitda[1]

FullWindow == Len(frame.window) = SCREENING_YEARS

(* The window years whose value of the column is above zero. *)
PositiveYears(col) ==
    Cardinality({i \in 1..Len(frame.window) : frame.window[i][col][1] > 0})

(* The years of the ticker that have both EBITDA and free cash flow. *)
YearsWithBoth ==
    Cardinality({i \in 1..Len(frame.derived) :
                    frame.derived[i].ebitda # None /\ frame.derived[i].fcf # None})

OperandAbsent(row) == row.operating_cash_flow = None \/ row.capital_expenditure = None

(* C6: wherever the screening path computes a free cash flow, a year whose
   operating cash flow or capital expenditure is absent gets none: in
   screen_stocks when it calculates the column, in
   calculate_financial_summary, and in calculate_fcf of simfin. *)
C6_AbsentOperandNoFcf ==
    /\ (Screened /\ use_calculated_fcf(financial_df)) =>
          \A i \in 1..Len(financial_df) :
              OperandAbsent(financial_df[i]) => frame.derived[i].fcf = None
    /\ Summarized =>
          \A i \in 1..Len(financial_df) :
              OperandAbsent(financial_df[i]) => frame.derived[i].fcf = None
    /\ db_data # None =>
          ((db_data[1].cash_from_operations = None
               \/ db_data[1].capital_expenditures = None)
           => db_data[1].free_cash_flow = None)

(* C7: in both trend classifiers the turnaround flag is true exactly when the
   EBITDA of the oldest window row is <= 0 and that of the newest is > 0, and
   a CAGR is produced exactly when both are > 0, from those two values; a
   turnaround has no CAGR. *)
C7_TrendSplit ==
    /\ (Screened /\ verdict[1].is_turnaround # None) =>
          /\ verdict[1].is_turnaround = Some(FirstEbitda <= 0 /\ LastEbitda > 0)
          /\ verdict[1].ebitda_cagr # None <=> (FirstEbitda > 0 /\ LastEbitda > 0)
          /\ verdict[1].ebitda_cagr # None =>
                /\ verdict[1].ebitda_cagr[1].earliest = FirstEbitda
                /\ verdict[1].ebitda_cagr[1].latest = LastEbitda
          /\ verdict[1].is_turnaround = Some(TRUE) => verdict[1].ebitda_cagr = None
    /\ (Summarized /\ ~summary[1].data_fetch_error) =>
          /\ summary[1].is_ebitda_turnaround = Some(FirstEbitda <= 0 /\ LastEbitda > 0)
          /\ summary[1].ebitda_cagr_percent # None <=> (FirstEbitda > 0 /\ LastEbitda > 0)
          /\ summary[1].ebitda_cagr_percent # None =>
                /\ summary[1].ebitda_cagr_percent[1].earliest = FirstEbitda
                /\ summary[1].ebitda_cagr_percent[1].latest = LastEbitda
          /\ summary[1].is_ebitda_turnaround = Some(TRUE)
                => summary[1].ebitda_cagr_percent = None

(* screen_stocks reached the growth test with a start of exactly 0 and a
   positive end: a turnaround without a CAGR. *)
C7_Witness ==
    /\ Screened
    /\ verdict[1].is_turnaround = Some(TRUE)
    /\ verdict[1].ebitda_cagr = None
    /\ FirstEbitda = 0 /\ LastEbitda > 0

(* C8: with a positive first and last EBITDA over the window of 5, the growth
   test of screen_stocks, and that of the query over the importData summary,
   passes exactly when last/first >= 1.15^4 = 1.74900625. *)
C8_GrowthTestExact ==
    /\ (Screened /\ verdict[1].is_turnaround # None
          /\ FirstEbitda > 0 /\ LastEbitda > 0) =>
          (verdict[1].status = "passed"
             <=> ~RatLess(LastEbitda, FirstEbitda, 174900625, 100000000))
    /\ (Queried /\ summary_table # None /\ ~summary_table[1].data_fetch_error
          /\ FirstEbitda > 0 /\ LastEbitda > 0
          /\ PositiveYears("ebitda") >= DB_MIN_POSITIVE_EBITDA_YEARS
          /\ PositiveYears("fcf") >= DB_MIN_POSITIVE_FCF_YEARS) =>
          (db_results # <<>>
             <=> ~RatLess(LastEbitda, FirstEbitda, 174900625, 100000000))

(* The growth test both programs apply to the window. *)
GrowthMet(min_percent) ==
    \/ FirstEbitda <= 0 /\ LastEbitda > 0
    \/ /\ FirstEbitda > 0 /\ LastEbitda > 0
       /\ CagrAtLeast([latest |-> LastEbitda, earliest |-> FirstEbitda,
                       num_periods |-> SCREENING_YEARS - 1], min_percent)

(* C9: a ticker with a full window of 5 is in the list screen_stocks returns,
   and its summary row is selected by the ScreenByEBIT_FCF_DB query, if and
   only if the window years with EBITDA > 0 meet their minimum, the window
   years with free cash flow > 0 meet theirs, and the ticker is a turnaround
   or its CAGR is defined and meets the minimum growth; a year of exactly 0
   does not count. *)
C9_PassIffAllTests ==
    /\ (Screened /\ FullWindow) =>
          (passed_screening # <<>>
             <=> /\ PositiveYears("ebitda") >= MIN_POSITIVE_EBITDA_YEARS
                 /\ PositiveYears("fcf") >= MIN_POSITIVE_FCF_YEARS
                 /\ GrowthMet(MIN_EBITDA_GROWTH_PERCENT))
    /\ (Queried /\ summary_table # None /\ FullWindow) =>
          (db_results # <<>>
             <=> /\ PositiveYears("ebitda") >= DB_MIN_POSITIVE_EBITDA_YEARS
                 /\ PositiveYears("fcf") >= DB_MIN_POSITIVE_FCF_YEARS
                 /\ GrowthMet(DB_MIN_EBITDA_GROWTH_PERCENT))

(* screen_stocks passed a ticker whose window has a year of EBITDA exactly 0
   and four positive ones. *)
C9_Witness ==
    /\ Screened /\ FullWindow
    /\ passed_screening # <<>>
    /\ \E i \in 1..Len(frame.window) : frame.window[i].ebitda = Some(0)
    /\ PositiveYears("ebitda") = MIN_POSITIVE_EBITDA_YEARS

(* C10: a ticker with fewer than 5 years that have both EBITDA and free cash
   flow is not in the list of screen_stocks and none of its tests is
   evaluated; its importData summary has data_fetch_error = True and no
   counts, CAGR or turnaround, and the query does not select it. *)
C10_InsufficientData ==
    /\ (Screened /\ YearsWithBoth < SCREENING_YEARS) =>
          /\ verdict[1].status = "insufficient"
          /\ passed_screening = <<>>
          /\ verdict[1].positive_ebitda_count = None
          /\ verdict[1].positive_fcf_count = None
          /\ verdict[1].ebitda_cagr = None
          /\ verdict[1].is_turnaround = None
    /\ (Summarized /\ YearsWithBoth < YEARS_HISTORY) =>
          /\ summary[1].data_fetch_error = TRUE
          /\ summary[1].positive_ebitda_years_count = None
          /\ summary[1].positive_fcf_years_count = None
          /\ summary[1].ebitda_cagr_percent = None
          /\ summary[1].is_ebitda_turnaround = None
          /\ ~Selected(summary[1])
          /\ db_results = <<>>

(* Five statements, one of them without EBITDA: the failure summary is in
   the table and the query selected nothing. *)
C10_Witness ==
    /\ Queried
    /\ Len(financial_df) = 5
    /\ YearsWithBoth = 4
    /\ summary_table # None
    /\ summary_table[1].data_fetch_error = TRUE
    /\ db_results = <<>>

(* C11: every ticker with rows in the input of screen_stocks has an entry in
   the value it returns, carrying its status (pass, fail or insufficient
   data), so that a ticker that failed a test and one without enough years
   can be told apart from the returned list. *)
C11_EveryTickerInResult ==
    (Screened /\ financial_df # <<>>) =>
        \E i \in 1..Len(passed_screening) :
            passed_screening[i].years_analyzed = Len(frame.window)

---------------------------------------------------------------------------
(* Persistence per entity. *)

(* The years of a company, or of a ticker, that are in the table. *)
CommittedYears(db, entity) == {y \in Years : <<entity, y>> \in db}

(* The tickers that have no row from an earlier run. *)
NewTickers ==
    {t \in {SymbolOrder[i] : i \in 1..Len(SymbolOrder)} :
        \A db \in EarlierRows : CommittedYears(db, t) = {}}

(* C12: once the loop over the years of an entity is over, either every year
   record produced for the entity is committed or none is: for the company
   fetch_sec_annual_financials has just merged and committed, and for every
   ticker ImportAnnualData has gone through. *)
C12_AllOrNothingPerEntity ==
    /\ (prog = "fetch_sec_annual_financials" /\ mpc \in {"company", "done"}
           /\ processed_count >= 1) =>
          LET cik == PyInt(companies_to_process[processed_count].key)
              produced == {y \in Years : annual_data_by_year[y] # None}
          IN CommittedYears(sec_db, cik) \in {{}, produced}
    /\ (prog = "ImportAnnualData" /\ fpc \in {"ticker", "done"}) =>
          \A t \in NewTickers :
              LET produced == {y \in Years : \E i \in 1..Len(upserted) :
                                                upserted[i] = <<t, y>>}
              IN CommittedYears(fmp_db, t) \in {{}, produced}

---------------------------------------------------------------------------
(* Repeated runs: process_company_facts read entry by entry, and the summary
   of importData, each against the same function applied once more to the
   same input. *)

RepeatInit ==
    /\ prog \in {"process_company_facts", "importData"}
    /\ FactsStart /\ SecStart /\ FmpStart /\ ScrStart /\ TrStart /\ NewStart

RepeatNext ==
    \/ prog = "process_company_facts" /\ FactsNext
    \/ UpdateSummary
    \/ ScreenFromDb

SpecRepeat == RepeatInit /\ [][RepeatNext]_vars

(* C13: the best entries process_company_facts holds after reading a list of
   entries, values and metadata alike, are those a second reading of the
   same list in the same order gives, and the counts, the turnaround flag and
   the CAGR of a summary are those a second computation from the same
   statements gives. *)
C13_SameInputSameOutput ==
    /\ (prog = "process_company_facts" /\ pc = "entries") =>
          yearly_data_for_tag = ReadEntries(NoYearly, seen, 1, FALSE)
    /\ Summarized =>
          LET again == calculate_financial_summary(financial_df) IN
          /\ summary[1].positive_ebitda_years_count = again.positive_ebitda_years_count
          /\ summary[1].positive_fcf_years_count = again.positive_fcf_years_count
          /\ summary[1].is_ebitda_turnaround = again.is_ebitda_turnaround
          /\ summary[1].ebitda_cagr_percent = again.ebitda_cagr_percent
          /\ summary[1].data_fetch_error = again.data_fetch_error

(* Three entries were read, a 10-K and a 20-F of one filing date among them,
   and the year has a best entry. *)
C13_Witness ==
    /\ prog = "process_company_facts" /\ pc = "entries"
    /\ Len(seen) = 3
    /\ IsParseable(seen[1]) /\ IsParseable(seen[2])
    /\ seen[1].form = "10-K" /\ seen[2].form = "20-F"
    /\ seen[1].filed = seen[2].filed
    /\ yearly_data_for_tag[2020] # None
    /\ Best(2020).idx = 1

---------------------------------------------------------------------------
(* Further properties of process_company_facts. *)

(* Two entries of one fiscal year, one form-priority class and one filing
   date. *)
TiedEntries(a, b) ==
    /\ a.fy = b.fy
    /\ IsAnnualReport(a.form) = IsAnnualReport(b.form)
    /\ parse_date(a.filed) = parse_date(b.filed)

(* C14: of two parseable annual entries of the chosen tag that have the same
   fiscal year, form-priority class and filed date, the one later in the list
   is selected: the earlier of such a pair is never the selected entry. *)
C14_LastSeenWinsTie ==
    (prog = "process_company_facts" /\ pc = "entries") =>
        \A i, j \in 1..Len(seen) :
            (/\ i < j
             /\ IsParseable(seen[i]) /\ IsParseable(seen[j])
             /\ TiedEntries(seen[i], seen[j]))
            => LET y == seen[i].fy[1] IN
               yearly_data_for_tag[y] # None => Best(y).idx # i

(* The metadata block of a resolved value, and that of a year record. *)
MetaOfValue(d) == <<Some(d.form), Some(d.filed_date), d.end_date>>
MetaOfRecord(r) == <<r.form, r.filed_date, r.period_end_date>>

(* A metadata block ranks above another: an annual-report form above any
   other form, then the later filed date. *)
RanksAbove(a, b) ==
    \/ IsAnnualReport(a[1][1]) /\ ~IsAnnualReport(b[1][1])
    \/ /\ IsAnnualReport(a[1][1]) = IsAnnualReport(b[1][1])
       /\ a[2][1] > b[2][1]

(* C15: the form, filed_date and period_end_date of a year record are always
   those of one resolved value of the year: whenever a concept is integrated
   the block of the year is either kept whole or replaced whole by that of
   the concept's resolved value, and neither the block it had nor that of the
   resolved value ranks above the block it has afterwards, so the block is
   that of a resolved value no other of the year ranks above. *)
C15_MetadataFromBestValue ==
    /\ [](\A y \in Years :
            annual_results[y] # None =>
                /\ annual_results[y][1].form # None
                /\ annual_results[y][1].filed_date # None)
    /\ [][\A y \in Years :
            (annual_results'[y] # annual_results[y]) =>
                LET new == MetaOfRecord(annual_results'[y][1])
                    val == MetaOfValue(yearly_data_for_tag[y][1])
                IN /\ yearly_data_for_tag[y] # None
                   /\ ~RanksAbove(val, new)
                   /\ IF annual_results[y] = None THEN new = val
                      ELSE LET old == MetaOfRecord(annual_results[y][1]) IN
                           /\ new \in {old, val}
                           /\ ~RanksAbove(old, new)]_vars

(* The year 2020 has the values of both concepts and the metadata of a 10-K
   filed on 2021-02-01 with its period end. *)
C15_Witness ==
    /\ prog = "process_company_facts" /\ pc = "done"
    /\ annual_results[2020] # None
    /\ \A c \in Columns : annual_results[2020][1].vals[c] # None
    /\ MetaOfRecord(annual_results[2020][1])
          = <<Some("10-K"), Some(20210201), Some(20201231)>>

(* C16: a year record holds for a concept only a value that an entry of the
   year parsed to, never a null or a zero in its place: the selected entry of
   a year is a parseable one and carries its parsed value, a year without a
   parseable entry has no selected entry, reading an entry whose value does
   not parse leaves the selected entries as they were, and a record gets the
   value of a concept only from the selected entry of its year, so that the
   concept stays absent from the record of a year in which none parsed. *)
C16_UnparsedValueDropped ==
    /\ []((prog = "process_company_facts" /\ pc = "entries") =>
            \A y \in Years :
                IF \E i \in 1..Len(seen) : IsParseable(seen[i]) /\ seen[i].fy = Some(y)
                THEN /\ yearly_data_for_tag[y] # None
                     /\ IsParseable(seen[Best(y).idx])
                     /\ Some(Best(y).val) = safe_decimal(seen[Best(y).idx].val)
                ELSE yearly_data_for_tag[y] = None)
    /\ [](\A y \in Years :
            annual_results[y] # None =>
                \E c \in Columns : annual_results[y][1].vals[c] # None)
    /\ [][(pc = "entries" /\ pc' = "entries" /\ Len(seen') = Len(seen) + 1
             /\ ~IsParseable(seen'[Len(seen')]))
          => yearly_data_for_tag' = yearly_data_for_tag]_vars
    /\ [][\A y \in Years : \A c \in Columns :
            LET before == IF annual_results[y] = None THEN None
                          ELSE annual_results[y][1].vals[c]
                after == IF annual_results'[y] = None THEN None
                         ELSE annual_results'[y][1].vals[c]
            IN after # before =>
                  /\ c = camel_to_snake(CurrentConcept)
                  /\ yearly_data_for_tag[y] # None
                  /\ after = Some(Best(y).val)]_vars

(* A 10-Q that parsed is followed by a later-filed 10-K whose value does not
   parse: the 10-Q stays selected. *)
C16_Witness ==
    /\ prog = "process_company_facts" /\ pc = "entries"
    /\ Len(seen) = 2
    /\ IsParseable(seen[1]) /\ seen[1].form = "10-Q" /\ seen[1].filed = "2021-02-01"
    /\ IsAnnualEntry(seen[2]) /\ ~IsParseable(seen[2])
    /\ seen[2].form = "10-K" /\ seen[2].filed = "2021-03-01"
    /\ seen[2].fy = seen[1].fy
    /\ yearly_data_for_tag[2020] # None
    /\ Best(2020).idx = 1

(* C17: an entry that raises while it is read removes only itself: whenever
   the reading of a concept's entries ends, the entries selected from the
   others of the concept are in the records of their years, and the values
   of the other concepts are as they were. *)
C17_FailureRemovesOneFact ==
    [][(pc = "entries" /\ pc' # "entries") =>
          \A y \in Years :
             /\ yearly_data_for_tag[y] # None =>
                    /\ annual_results'[y] # None
                    /\ annual_results'[y][1].vals[camel_to_snake(CurrentConcept)]
                          = Some(Best(y).val)
             /\ \A c \in Columns \ {camel_to_snake(CurrentConcept)} :
                    (annual_results[y] # None /\ annual_results[y][1].vals[c] # None)
                    => /\ annual_results'[y] # None
                       /\ annual_results'[y][1].vals[c] = annual_results[y][1].vals[c]]_vars

---------------------------------------------------------------------------
(* Further properties of the screening path. *)

(* C18: in screen_stocks the free cash flow used for a year is the stored
   free_cash_flow of that year when it is present, and the computed
   operating_cash_flow + capital_expenditure when it is absent (here for the
   years that have both operands), year by year. *)
C18_FcfChosenPerYear ==
    Screened =>
        \A i \in 1..Len(financial_df) :
            LET row == financial_df[i] IN
            IF row.free_cash_flow # None
            THEN frame.derived[i].fcf = row.free_cash_flow
            ELSE ~OperandAbsent(row) =>
                    frame.derived[i].fcf =
                        Some(row.operating_cash_flow[1] + row.capital_expenditure[1])

(* C19: in calculate_financial_summary the EBITDA of a year is its direct
   value when the year has one, else operating income plus depreciation and
   amortization when the year has both, else unset. *)
C19_EbitdaPerYear ==
    Summarized =>
        \A i \in 1..Len(financial_df) :
            LET row == financial_df[i] IN
            frame.derived[i].ebitda =
                IF row.ebitda # None THEN row.ebitda
                ELSE IF row.op_income # None /\ row.da # None
                     THEN Some(row.op_income[1] + row.da[1])
                     ELSE None

---------------------------------------------------------------------------
(* transformSECToPeriods.py: the rows of sec_numeric_data of a batch of CIKs
   are pivoted and mapped to the columns of company_financial_periods. *)

(* Bound: the rows of sec_numeric_data. *)
MaxFacts == 3

(* Lines 27-64, for three of the target columns. *)
TAG_MAP ==
    [revenue |->
        <<"Revenues", "RevenueFromContractWithCustomerExcludingAssessedTax",
          "SalesRevenueNet">>,
     net_cash_provided_by_used_in_operating_activities |->
        <<"NetCashProvidedByUsedInOperatingActivities",
          "NetCashProvidedByUsedInOperatingActivitiesContinuingOperations">>,
     capital_expenditure |->
        <<"PaymentsToAcquirePropertyPlantAndEquipment",
          "PurchaseOfPropertyPlantAndEquipment", "PaymentsToAcquireProductiveAssets">>]

(* The rows of sec_numeric_data: annual USD facts (qtrs = 4) of two CIKs for
   one period end, reported in one of two filings (adsh, numbered in their
   sort order); a value of None is one that pd.to_numeric coerces to NaN. *)
SourceCiks == {1, 2}
SourceFilings == {1, 2}
SourceTags == {"Revenues", "SalesRevenueNet",
               "NetCashProvidedByUsedInOperatingActivities",
               "PaymentsToAcquirePropertyPlantAndEquipment"}
SourceValues == {None, Some(5), Some(-3)}
SourceFacts ==
    [cik : SourceCiks, adsh : SourceFilings, ddate : {20201231}, tag : SourceTags,
     value : SourceValues]

(* Lines 145-149: the rows come ORDER BY cik, ddate, qtrs. *)
SourceTables ==
    {t \in UNION {[1..n -> SourceFacts] : n \in 0..MaxFacts} :
        \A i, j \in 1..Len(t) : i < j => t[i].cik <= t[j].cik}

(* Lines 168-169: the rows whose value is a number. *)
DropNaValues(raw_df) == SelectSeq(raw_df, LAMBDA r : r.value # None)

(* Lines 176-181: the columns of the pivot are the tags of the frame, its
   index the (cik, adsh, ..., ddate, qtrs, uom) groups, and a cell the last
   value of the tag for the group. *)
PivotColumns(df) == {df[i].tag : i \in 1..Len(df)}
PivotIndex(df) == {<<df[i].cik, df[i].adsh, df[i].ddate>> : i \in 1..Len(df)}
PivotCell(df, key, tag) ==
    LET I == {i \in 1..Len(df) :
                 /\ df[i].cik = key[1] /\ df[i].adsh = key[2]
                 /\ df[i].ddate = key[3] /\ df[i].tag = tag}
    IN IF I = {} THEN None ELSE df[CHOOSE i \in I : \A j \in I : j <= i].value

(* Lines 204-217: the first tag of the list that is a column of the pivot. *)
RECURSIVE MappedTag(_, _, _)
MappedTag(source_tags, columns, i) ==
    IF i > Len(source_tags) THEN None
    ELSE IF source_tags[i] \in columns THEN Some(source_tags[i])
    ELSE MappedTag(source_tags, columns, i + 1)

(* Lines 162-253: transform_data, as the set of the rows it returns. *)
transform_data(raw_df) ==
    LET df == DropNaValues(raw_df)
        columns == PivotColumns(df)
        mapped(key) ==
            [target_col \in DOMAIN TAG_MAP |->
                LET tag == MappedTag(TAG_MAP[target_col], columns, 1)
                IN IF tag = None THEN None ELSE PivotCell(df, key, tag[1])]
        cfo_vals(key) == mapped(key)["net_cash_provided_by_used_in_operating_activities"]
        capex_vals(key) == mapped(key)["capital_expenditure"]
    IN {[cik |-> key[1], adsh |-> key[2], period_end_date |-> key[3],
         vals |-> mapped(key),
         calculated_fcf |-> IF cfo_vals(key) # None /\ capex_vals(key) # None
                            THEN Some(cfo_vals(key)[1] + capex_vals(key)[1])
                            ELSE None] : key \in PivotIndex(df)}

(* Lines 382-394: the CIKs of the table make one batch and their rows are
   fetched; without rows the batch is skipped. *)
FetchBatch ==
    /\ prog = "transformSECToPeriods"
    /\ tpc = "start"
    /\ \E table \in SourceTables : raw_data_df' = table
    /\ tpc' = IF raw_data_df' = <<>> THEN "done" ELSE "fetched"
    /\ UNCHANGED <<period_data_df, periods_table>>
    /\ UNCHANGED <<prog, factVars, secVars, fmpVars, scrVars, newVars>>

(* Lines 396-403: the batch is transformed; without rows the upsert is
   skipped. *)
TransformBatch ==
    /\ prog = "transformSECToPeriods"
    /\ tpc = "fetched"
    /\ period_data_df' = transform_data(raw_data_df)
    /\ tpc' = IF period_data_df' = {} THEN "done" ELSE "transformed"
    /\ UNCHANGED <<raw_data_df, periods_table>>
    /\ UNCHANGED <<prog, factVars, secVars, fmpVars, scrVars, newVars>>

(* Lines 299-322: INSERT ... ON DUPLICATE KEY UPDATE over the rows in the
   order of the frame (that of the pivot index: cik, adsh, ...): of the rows
   with one primary key (cik, period_end_date, period_duration_qtrs) the last
   one stays. *)
UpsertedRows(df) ==
    {r \in df : \A q \in df :
        (q.cik = r.cik /\ q.period_end_date = r.period_end_date) => q.adsh <= r.adsh}

(* Lines 405-409 and upsert_period_data: the rows are written in one batch
   and committed, or the batch fails and is rolled back. *)
UpsertBatch ==
    /\ prog = "transformSECToPeriods"
    /\ tpc = "transformed"
    /\ \E ok \in BOOLEAN :
          periods_table' = IF ok THEN UpsertedRows(period_data_df) ELSE periods_table
    /\ tpc' = "done"
    /\ UNCHANGED <<raw_data_df, period_data_df>>
    /\ UNCHANGED <<prog, factVars, secVars, fmpVars, scrVars, newVars>>

TransformInit ==
    /\ prog = "transformSECToPeriods"
    /\ FactsStart /\ SecStart /\ FmpStart /\ ScrStart /\ TrStart /\ NewStart

TransformNext == FetchBatch \/ TransformBatch \/ UpsertBatch

SpecTransform == TransformInit /\ [][TransformNext]_vars

(* The rows of a frame that belong to a CIK. *)
RowsOfCik(df, cik) == SelectSeq(df, LAMBDA r : r.cik = cik)

(* C20: the rows transform_data gives for a CIK inside a batch are the rows
   it gives for the rows of that CIK alone, the candidate tag that feeds each
   target column included. *)
C20_CikIndependentOfBatch ==
    (prog = "transformSECToPeriods" /\ tpc \in {"transformed", "done"}) =>
        \A cik \in SourceCiks :
            {r \in period_data_df : r.cik = cik}
                = transform_data(RowsOfCik(raw_data_df, cik))

(* C21: the rows transform_data returns hold at most one row per key (cik,
   period_end_date, period_duration_qtrs) of the target table, so that no
   row written by the upsert is overwritten by another of the same run. *)
C21_OneRowPerTargetKey ==
    (prog = "transformSECToPeriods" /\ tpc \in {"transformed", "done"}) =>
        /\ \A r, q \in period_data_df :
              (q.cik = r.cik /\ q.period_end_date = r.period_end_date) => q = r
        /\ (tpc = "done" /\ periods_table # {}) => periods_table = period_data_df

(***************************************************************************)
(* EDGAR_Tool/edgar_financial_importer.py: find_edgar_py_fact and          *)
(* extract_financials_for_filing.  Of XBRL_TAGS_MAP the column revenue is  *)
(* followed; the post-processing of lines 216-226 assigns gross_profit and *)
(* operating_income_loss only.                                             *)
(***************************************************************************)
MaxFactList == 2

XBRL_TAGS_MAP ==
    [revenue |-> <<"us-gaap:Revenues",
                   "us-gaap:RevenueFromContractWithCustomerExcludingAssessedTax",
                   "us-gaap:SalesRevenueNet">>]

(* The period of the filing, and the facts edgar-py may hold for a tag: an
   end date and a raw value (None is a JSON null). *)
period_date_str == "2020-12-31"
EdgarFacts ==
    [end_date : {"2020-12-31", "2019-12-31"}, value : {None, Some("1,000"), Some("x")}]
EdgarFactLists ==
    UNION {[1..n -> EdgarFacts] : n \in 0..MaxFactList}
EdgarTags == {XBRL_TAGS_MAP.revenue[i] : i \in 1..Len(XBRL_TAGS_MAP.revenue)}
EdgarFactDicts == [EdgarTags -> {None} \cup {Some(l) : l \in EdgarFactLists}]

(* Lines 157-165: Decimal(str(raw_value).replace(',', '').strip()); an
   empty string is passed over, a string that is no number raises
   InvalidOperation, and both go on to the next fact. *)
CleanedValue(raw) ==
    CASE raw = "1,000" -> "1000"
      [] raw = " " -> ""
      [] OTHER -> raw
DecimalOf(cleaned) ==
    CASE cleaned = "1000" -> Some(1000)
      [] OTHER -> None

(* Lines 146-165: the first fact of the list whose end date is the period
   and whose value converts. *)
FactValue(fact_data) ==
    IF fact_data.end_date = period_date_str /\ fact_data.value # None
    THEN DecimalOf(CleanedValue(fact_data.value[1]))
    ELSE None

RECURSIVE FirstFactValue(_, _)
FirstFactValue(fact_list, i) ==
    IF i > Len(fact_list) THEN None
    ELSE IF FactValue(fact_list[i]) # None THEN FactValue(fact_list[i])
    ELSE FirstFactValue(fact_list, i + 1)

(* Lines 142-167: "for tag in tags"; a tag that is present returns its first
   matching value, and a tag without one leaves the search to the next
   tag. *)
RECURSIVE FindFromTag(_, _, _)
FindFromTag(facts_dict, tags, t) ==
    IF t > Len(tags) THEN None
    ELSE IF facts_dict[tags[t]] # None
            /\ FirstFactValue(facts_dict[tags[t]][1], 1) # None
         THEN FirstFactValue(facts_dict[tags[t]][1], 1)
         ELSE FindFromTag(facts_dict, tags, t + 1)

(* Lines 134-167. *)
find_edgar_py_fact(facts_dict, tags) ==
    IF (\A tag \in DOMAIN facts_dict : facts_dict[tag] = None) \/ tags = <<>>
    THEN None
    ELSE FindFromTag(facts_dict, tags, 1)

(* Lines 201-209: filing.get_facts(). *)
GetFacts ==
    /\ prog = "edgar_financial_importer"
    /\ epc = "start"
    /\ us_gaap_facts' \in EdgarFactDicts
    /\ epc' = "facts"
    /\ UNCHANGED <<prog, mainVars, simVars, numVars, tvVars, reqVars, financial_data, ed_status>>

(* Lines 212-234: every column of XBRL_TAGS_MAP is looked up, and the status
   tells whether any value was found. *)
ExtractFinancials ==
    /\ prog = "edgar_financial_importer"
    /\ epc = "facts"
    /\ financial_data' =
         [db_col \in DOMAIN XBRL_TAGS_MAP |->
             find_edgar_py_fact(us_gaap_facts, XBRL_TAGS_MAP[db_col])]
    /\ ed_status' = IF \E db_col \in DOMAIN XBRL_TAGS_MAP : financial_data'[db_col] # None
                    THEN "Success" ELSE "Parse Issue"
    /\ epc' = "extracted"
    /\ UNCHANGED <<prog, mainVars, simVars, numVars, tvVars, reqVars, us_gaap_facts>>

EdgarInit == prog = "edgar_financial_importer" /\ MainStart /\ NewStart

EdgarNext == GetFacts \/ ExtractFinancials

SpecEdgar == EdgarInit /\ [][EdgarNext]_vars

(* The highest-priority tag of the list that the facts hold. *)
HighestPresentTag(tags) ==
    LET I == {t \in 1..Len(tags) : us_gaap_facts[tags[t]] # None}
    IN IF I = {} THEN None
       ELSE Some(tags[CHOOSE t \in I : \A u \in I : t <= u])

(* C22: find_edgar_py_fact resolves a concept from the highest-priority tag
   present in the facts only: when that tag has no parseable fact for the
   period end date of the filing, the result is None and no lower-priority
   tag is read. *)
C22_HighestPresentTagOnly ==
    (prog = "edgar_financial_importer" /\ epc = "extracted") =>
        \A db_col \in DOMAIN XBRL_TAGS_MAP :
            LET top == HighestPresentTag(XBRL_TAGS_MAP[db_col])
            IN (top # None /\ FirstFactValue(us_gaap_facts[top[1]][1], 1) = None)
                   => financial_data[db_col] = None

(***************************************************************************)
(* simfin/import_simfin_financials.py, main, lines 174-236: the join of    *)
(* the three datasets and the choice of the column each database column    *)
(* is read from.  Of DB_COLUMN_MAP one metadata column and three financial *)
(* columns are followed.                                                   *)
(***************************************************************************)
DB_COLUMN_MAP ==
    [currency |-> "Currency",
     deferred_revenue_current |-> "Deferred Revenue",
     deferred_revenue_non_current |-> "Deferred Revenue",
     depreciation_amortization |-> "Depreciation & Amortization"]

(* Line 198: the metadata columns; line 225: the other columns, in the order
   of the dictionary. *)
metadata_map == <<"currency">>
financial_map ==
    <<"deferred_revenue_current", "deferred_revenue_non_current",
      "depreciation_amortization">>

(* A column of a frame is a base name and the suffix a join gave it. *)
Col(base, suffix) == <<base, suffix>>

(* Lines 148-170: the datasets simfin delivers.  Every dataset that is not
   empty carries Currency; Deferred Revenue is a balance sheet column;
   Depreciation & Amortization may be a column of any dataset. *)
SimfinFrames ==
    {f \in [income : SUBSET {"Currency", "Depreciation & Amortization"},
            balance : SUBSET {"Currency", "Deferred Revenue",
                              "Depreciation & Amortization"},
            cashflow : SUBSET {"Currency", "Depreciation & Amortization"}] :
        \A d \in {"income", "balance", "cashflow"} :
            f[d] # {} => "Currency" \in f[d]}

RawColumns(bases) == {Col(b, "") : b \in bases}

(* DataFrame.join(other, how='outer', lsuffix, rsuffix): a column name both
   frames have gets the suffix of its side; the other columns keep their
   names. *)
Join(left, right, lsuffix, rsuffix) ==
    LET overlap == left \cap right
    IN (left \ overlap) \cup (right \ overlap)
        \cup {Col(c[1], lsuffix) : c \in overlap}
        \cup {Col(c[1], rsuffix) : c \in overlap}

(* Lines 181-191. *)
df_merged(f) ==
    LET inc == RawColumns(f.income)
        bal == RawColumns(f.balance)
        cf == RawColumns(f.cashflow)
        first == IF bal # {} THEN Join(inc, bal, "_inc", "_bal") ELSE inc
    IN IF inc # {}
       THEN IF cf # {} THEN Join(first, cf, "", "_cf") ELSE first
       ELSE IF bal # {}
            THEN IF cf # {} THEN Join(bal, cf, "_bal", "_cf") ELSE bal
            ELSE cf

(* Line 195: col_priority = {'_cf', '_bal', '_inc', ''} is a set of strings;
   the order in which a run iterates it follows the string hashes of the
   process, so that any order can occur. *)
Suffixes == {"_cf", "_bal", "_inc", ""}
IterationOrders ==
    {o \in [1..4 -> Suffixes] : \A i, j \in 1..4 : o[i] = o[j] => i = j}

(* The order the comment of the source intends. *)
IntendedOrder == <<"_cf", "_bal", "_inc", "">>

(* Lines 209-212 and 229-232: the first suffix of the order whose column
   df_merged has and no earlier database column took. *)
RECURSIVE FirstFree(_, _, _, _, _)
FirstFree(df_col_base, order, i, columns, processed_cols) ==
    IF i > Len(order) THEN None
    ELSE IF Col(df_col_base, order[i]) \in columns
            /\ Col(df_col_base, order[i]) \notin processed_cols
         THEN Some(Col(df_col_base, order[i]))
         ELSE FirstFree(df_col_base, order, i + 1, columns, processed_cols)

(* The columns taken by the database columns mapped so far. *)
ProcessedCols(cols) == {cols[k][1] : k \in {k \in DOMAIN cols : cols[k] # None}}

(* Lines 199-213: a metadata column tries the bare name, then the suffixes;
   a column that is not found stays out of final_cols. *)
RECURSIVE MapMetadata(_, _, _, _)
MapMetadata(i, order, columns, cols) ==
    IF i > Len(metadata_map) THEN cols
    ELSE LET db_col == metadata_map[i]
             found == FirstFree(DB_COLUMN_MAP[db_col], <<"">> \o order, 1,
                                columns, ProcessedCols(cols))
         IN MapMetadata(i + 1, order, columns,
                        IF found = None THEN cols
                        ELSE [k \in DOMAIN cols \cup {db_col} |->
                                 IF k = db_col THEN found ELSE cols[k]])

(* Lines 225-236: a financial column tries the suffixes, then the bare name,
   and is None when no column is found. *)
RECURSIVE MapFinancial(_, _, _, _)
MapFinancial(i, order, columns, cols) ==
    IF i > Len(financial_map) THEN cols
    ELSE LET db_col == financial_map[i]
             found == FirstFree(DB_COLUMN_MAP[db_col], order \o <<"">>, 1,
                                columns, ProcessedCols(cols))
         IN MapFinancial(i + 1, order, columns,
                         IF db_col \in DOMAIN cols THEN cols
                         ELSE [k \in DOMAIN cols \cup {db_col} |->
                                  IF k = db_col THEN found ELSE cols[k]])

(* Lines 195-236. *)
FinalCols(f, order) ==
    MapFinancial(1, order, df_merged(f),
                 MapMetadata(1, order, df_merged(f), <<>>))

(* Lines 148-170: the datasets are loaded and filtered. *)
LoadFrames ==
    /\ prog = "import_simfin_financials"
    /\ simpc = "start"
    /\ frames' \in SimfinFrames
    /\ simpc' = "loaded"
    /\ UNCHANGED <<prog, mainVars, edVars, numVars, tvVars, reqVars, col_priority, final_cols,
                   earlier_final_cols>>

(* Lines 174-236: the frames are joined and the columns mapped; with all
   frames empty nothing is mapped. *)
MapColumns ==
    /\ prog = "import_simfin_financials"
    /\ simpc = "loaded"
    /\ \E order \in IterationOrders :
          /\ col_priority' = order
          /\ final_cols' = IF df_merged(frames) = {} THEN <<>>
                           ELSE FinalCols(frames, order)
    /\ simpc' = "mapped"
    /\ UNCHANGED <<prog, mainVars, edVars, numVars, tvVars, reqVars, frames, earlier_final_cols>>

(* The script is started again over the same datasets. *)
RunAgain ==
    /\ prog = "import_simfin_financials"
    /\ simpc = "mapped"
    /\ earlier_final_cols = None
    /\ earlier_final_cols' = Some(final_cols)
    /\ simpc' = "loaded"
    /\ col_priority' = <<>>
    /\ final_cols' = <<>>
    /\ UNCHANGED <<prog, mainVars, edVars, numVars, tvVars, reqVars, frames>>

SimfinInit == prog = "import_simfin_financials" /\ MainStart /\ NewStart

SimfinNext == LoadFrames \/ MapColumns \/ RunAgain

SpecSimfin == SimfinInit /\ [][SimfinNext]_vars

(* C23: among the suffixed variants of the column of a database column the
   one first in the order _cf, _bal, _inc, unsuffixed is chosen, so that two
   runs over identical dataframes map every database column to the same
   column. *)
C23_FixedPriorityOrder ==
    (prog = "import_simfin_financials" /\ simpc = "mapped"
         /\ df_merged(frames) # {}) =>
        /\ \A i \in 1..Len(financial_map) :
              final_cols[financial_map[i]] =
                  MapFinancial(1, IntendedOrder, df_merged(frames),
                      MapMetadata(1, IntendedOrder, df_merged(frames),
                                  <<>>))[financial_map[i]]
        /\ earlier_final_cols # None => final_cols = earlier_final_cols[1]

---------------------------------------------------------------------------
(* The value 0 in process_company_facts. *)

(* An entry whose "val" is the JSON number 0. *)
IsZeroEntry(e) == e.val = Some([kind |-> "num", text |-> "0"])

(* Entry a wins against entry b of the same year: an annual report against
   another form, or the later filing within one class. *)
Outranks(a, b) ==
    \/ IsAnnualReport(a.form) /\ ~IsAnnualReport(b.form)
    \/ /\ IsAnnualReport(a.form) = IsAnnualReport(b.form)
       /\ parse_date(a.filed)[1] > parse_date(b.filed)[1]

(* C24: a well-formed annual entry whose value is the number 0 takes part in
   the selection like any other value and is no parse failure: where it
   outranks every other annual entry of its year read so far, it is the
   selected entry of the year, with the value 0 and its own form and filing
   date. *)
C24_ZeroIsAValue ==
    (prog = "process_company_facts" /\ pc = "entries") =>
        \A i \in 1..Len(seen) :
            (/\ IsAnnualEntry(seen[i]) /\ IsZeroEntry(seen[i])
             /\ \A j \in 1..Len(seen) :
                   (j # i /\ IsAnnualEntry(seen[j]) /\ seen[j].fy = seen[i].fy)
                       => Outranks(seen[i], seen[j]))
            => /\ yearly_data_for_tag[seen[i].fy[1]] # None
               /\ Best(seen[i].fy[1]).idx = i
               /\ Best(seen[i].fy[1]).val = 0
               /\ Best(seen[i].fy[1]).form = seen[i].form
               /\ Some(Best(seen[i].fy[1]).filed_date) = parse_date(seen[i].filed)

(***************************************************************************)
(* importUS_SEC_Data.py and importSECData_AllForms.py: num.txt is read in  *)
(* chunks, and process_numeric_chunk derives the free cash flow rows of a  *)
(* chunk and inserts the rows in batches.  The rows are USD facts of one   *)
(* filing of sub_map and one year.                                         *)
(***************************************************************************)
(* The file has at most MaxNumRows rows; INSERT_BATCH_SIZE (5000 in the
   source) is scaled with it, so that a call inserts more than one batch. *)
MaxNumRows == 3
INSERT_BATCH_SIZE == 2

CFO_TAGS == {"NetCashProvidedByUsedInOperatingActivities"}
CAPEX_TAGS == {"PaymentsToAcquirePropertyPlantAndEquipment"}

(* A row of num.txt; a value of None is one parse_decimal returns None
   for. *)
NumRows ==
    [adsh : {"a1"}, year : {2020}, qtrs : {4, 1},
     tag : CFO_TAGS \cup CAPEX_TAGS \cup {"Revenues"},
     value : {Some(100), Some(-30), None}]
NumFiles == UNION {[1..n -> NumRows] : n \in 0..MaxNumRows}

(* pd.read_csv(chunksize=...): the k-th chunk of the file. *)
ChunkOf(file, size, k) ==
    SubSeq(file, (k - 1) * size + 1,
           IF k * size < Len(file) THEN k * size ELSE Len(file))
NumChunks(file, size) == (Len(file) + size - 1) \div size

(* The rows of a chunk whose value parses, in the order of the chunk. *)
RECURSIVE ParsedRows(_)
ParsedRows(chunk) ==
    IF chunk = <<>> THEN <<>>
    ELSE IF Head(chunk).value = None THEN ParsedRows(Tail(chunk))
    ELSE <<Head(chunk)>> \o ParsedRows(Tail(chunk))

(* The candidate of a kind ('cfo' or 'capex') for a key: of the annual rows
   of the chunk with a tag of the kind, importUS_SEC_Data keeps the first,
   importSECData_AllForms the last. *)
Candidate(chunk, key, tags, keep_first) ==
    LET rows == ParsedRows(chunk)
        I == {i \in 1..Len(rows) :
                 /\ rows[i].qtrs = 4 /\ rows[i].tag \in tags
                 /\ <<rows[i].adsh, rows[i].year>> = key}
    IN IF I = {} THEN None
       ELSE IF keep_first THEN rows[CHOOSE i \in I : \A j \in I : i <= j].value
       ELSE rows[CHOOSE i \in I : \A j \in I : i >= j].value

FCF_CALCULATION_METHOD(cfo, capex) == cfo + capex

(* The CalculatedFreeCashFlow rows of a chunk: one for every key that has a
   cfo and a capex candidate in the chunk. *)
FcfRowsOfChunk(chunk, keep_first) ==
    LET keys == {<<chunk[i].adsh, chunk[i].year>> : i \in 1..Len(chunk)}
        both == {k \in keys : /\ Candidate(chunk, k, CFO_TAGS, keep_first) # None
                              /\ Candidate(chunk, k, CAPEX_TAGS, keep_first) # None}
    IN {[adsh |-> k[1], year |-> k[2], qtrs |-> 4, tag |-> "CalculatedFreeCashFlow",
         value |-> Some(FCF_CALCULATION_METHOD(
                            Candidate(chunk, k, CFO_TAGS, keep_first)[1],
                            Candidate(chunk, k, CAPEX_TAGS, keep_first)[1]))] :
        k \in both}

(* A set of rows with distinct keys as a list. *)
RECURSIVE ListOf(_)
ListOf(rows) ==
    IF rows = {} THEN <<>>
    ELSE LET r == CHOOSE r \in rows : TRUE IN <<r>> \o ListOf(rows \ {r})

(* all_rows_to_insert = rows_to_insert + fcf_rows_to_insert *)
AllRowsToInsert(chunk, keep_first) ==
    ParsedRows(chunk) \o ListOf(FcfRowsOfChunk(chunk, keep_first))

(* INSERT ... ON DUPLICATE KEY UPDATE of a list of rows: a row replaces the
   row of its key. *)
RowKey(r) == <<r.adsh, r.tag, r.year, r.qtrs>>
RECURSIVE UpsertRows(_, _)
UpsertRows(table, rows) ==
    IF rows = <<>> THEN table
    ELSE UpsertRows({t \in table : RowKey(t) # RowKey(Head(rows))} \cup {Head(rows)},
                    Tail(rows))

(* The counts process_numeric_chunk returns when batch `failed` raises (0:
   none does) after `committed` rows went through: insert_count is set
   after the loop only; importUS_SEC_Data counts every row as an error,
   importSECData_AllForms the rows not committed. *)
ReturnedCounts(tried, committed, failed, all_forms) ==
    [insert_count |-> IF failed = 0 THEN committed ELSE 0,
     error_count |-> IF failed = 0 THEN 0
                     ELSE IF all_forms THEN tried - committed ELSE tried]

(* main: sub.txt is loaded and num.txt is opened. *)
OpenNumFile ==
    /\ prog \in {"importUS_SEC_Data", "importSECData_AllForms"}
    /\ npc = "start"
    /\ num_file' \in NumFiles
    /\ chunk_size' \in 1..MaxNumRows
    /\ npc' = "chunks"
    /\ UNCHANGED <<prog, mainVars, edVars, simVars, tvVars, reqVars, chunk_num, numeric_table,
                   chunk_call, total_processed_rows, total_errors>>

(* main, "for chunk in num_iterator", and process_numeric_chunk: the rows of
   the chunk and its free cash flow rows are inserted batch by batch, each
   batch committed; a batch that raises ends the call. *)
ProcessChunk ==
    /\ prog \in {"importUS_SEC_Data", "importSECData_AllForms"}
    /\ npc = "chunks"
    /\ chunk_num < NumChunks(num_file, chunk_size)
    /\ LET chunk == ChunkOf(num_file, chunk_size, chunk_num + 1)
           all_rows == AllRowsToInsert(chunk, prog = "importUS_SEC_Data")
           batches == (Len(all_rows) + INSERT_BATCH_SIZE - 1) \div INSERT_BATCH_SIZE
       IN \E failed \in 0..batches :
             LET committed == IF failed = 0 THEN Len(all_rows)
                              ELSE (failed - 1) * INSERT_BATCH_SIZE
                 counts == ReturnedCounts(Len(all_rows), committed, failed,
                                          prog = "importSECData_AllForms")
             IN /\ numeric_table' =
                      UpsertRows(numeric_table, SubSeq(all_rows, 1, committed))
                /\ chunk_call' =
                      Some([tried |-> Len(all_rows),
                            processed_rows_count |-> committed,
                            failed |-> failed,
                            insert_count |-> counts.insert_count,
                            error_count |-> counts.error_count])
                /\ total_processed_rows' = total_processed_rows + counts.insert_count
                /\ total_errors' = total_errors + counts.error_count
    /\ chunk_num' = chunk_num + 1
    /\ UNCHANGED <<prog, mainVars, edVars, simVars, tvVars, reqVars, npc, num_file, chunk_size>>

(* main: the iterator is exhausted. *)
FinishNumImport ==
    /\ prog \in {"importUS_SEC_Data", "importSECData_AllForms"}
    /\ npc = "chunks"
    /\ chunk_num = NumChunks(num_file, chunk_size)
    /\ npc' = "done"
    /\ UNCHANGED <<prog, mainVars, edVars, simVars, tvVars, reqVars, num_file, chunk_size,
                   chunk_num, numeric_table, chunk_call, total_processed_rows,
                   total_errors>>

NumImportInit ==
    /\ prog \in {"importUS_SEC_Data", "importSECData_AllForms"}
    /\ MainStart /\ NewStart

NumImportNext == OpenNumFile \/ ProcessChunk \/ FinishNumImport

SpecNumImport == NumImportInit /\ [][NumImportNext]_vars

(* The parseable annual values num.txt holds for a key under tags. *)
AnnualValues(key, tags) ==
    {num_file[i].value[1] :
        i \in {i \in 1..Len(num_file) :
                  /\ num_file[i].value # None /\ num_file[i].qtrs = 4
                  /\ num_file[i].tag \in tags
                  /\ <<num_file[i].adsh, num_file[i].year>> = key}}

(* C25: for every (adsh, year) for which num.txt holds an annual operating
   cash flow fact and an annual capital expenditure fact with parseable
   values, an import without insert errors leaves one CalculatedFreeCashFlow
   row whose value is the sum of such a pair, whatever the chunk size: the
   rows are those of the file read as a single chunk. *)
C25_FcfRowWhateverTheChunking ==
    (prog \in {"importUS_SEC_Data", "importSECData_AllForms"}
         /\ npc = "done" /\ total_errors = 0) =>
        /\ \A key \in {<<num_file[i].adsh, num_file[i].year>> : i \in 1..Len(num_file)} :
              (AnnualValues(key, CFO_TAGS) # {} /\ AnnualValues(key, CAPEX_TAGS) # {})
                  => \E r \in numeric_table :
                        /\ r.tag = "CalculatedFreeCashFlow"
                        /\ <<r.adsh, r.year>> = key
                        /\ \E cfo \in AnnualValues(key, CFO_TAGS),
                              capex \in AnnualValues(key, CAPEX_TAGS) :
                                 r.value = Some(cfo + capex)
        /\ Cardinality({r \in numeric_table : r.tag = "CalculatedFreeCashFlow"})
               = Cardinality(FcfRowsOfChunk(num_file, prog = "importUS_SEC_Data"))

(* C26: process_numeric_chunk returns the number of rows of the batches it
   committed as insert_count, and insert_count + error_count is the number
   of rows it tried to insert, also when a batch after the first fails. *)
C26_CountsMatchCommits ==
    (prog \in {"importUS_SEC_Data", "importSECData_AllForms"} /\ chunk_call # None) =>
        /\ chunk_call[1].insert_count = chunk_call[1].processed_rows_count
        /\ chunk_call[1].insert_count + chunk_call[1].error_count = chunk_call[1].tried

---------------------------------------------------------------------------
(* The years of the screening window. *)

(* C27: the window screen_stocks computes the growth over consists of
   consecutive fiscal years, so that the number of compounding periods, the
   length of the window less one, is the last year less the first. *)
C27_WindowOfConsecutiveYears ==
    (Screened /\ verdict[1].status # "insufficient") =>
        /\ \A i \in 1..(Len(frame.window) - 1) :
              frame.window[i + 1].year = frame.window[i].year + 1
        /\ Len(frame.window) - 1 =
              frame.window[Len(frame.window)].year - frame.window[1].year

---------------------------------------------------------------------------
(* Successive runs of ImportAnnualData.main over one table. *)

(* main is started again within the refresh interval: the table is as the
   run before left it. *)
NextRun ==
    /\ prog = "ImportAnnualData"
    /\ fpc = "done"
    /\ fpc' = "start"
    /\ stock_tickers' = <<>>
    /\ ticker_i' = 0
    /\ combined_df' = <<>>
    /\ rows_done' = 0
    /\ upserted' = <<>>
    /\ skipped_fresh_count' = 0
    /\ UNCHANGED <<fmp_db, failed_rows>>
    /\ UNCHANGED <<prog, factVars, secVars, scrVars, trVars, newVars>>

RefreshInit ==
    /\ prog = "ImportAnnualData"
    /\ FactsStart /\ SecStart /\ FmpStart /\ ScrStart /\ TrStart /\ NewStart

RefreshNext ==
    \/ GetStockTickers \/ SkipFreshTicker \/ ProcessTicker \/ UpsertRow
    \/ FinishImport \/ NextRun

SpecRefresh == RefreshInit /\ [][RefreshNext]_vars

(* C28: a run skips a ticker as fresh only if every year record of the
   ticker's last import was upserted; a ticker of which the last import
   failed for a year is fetched again by the next run. *)
C28_SkippedOnlyAfterFullImport ==
    [][skipped_fresh_count' = skipped_fresh_count + 1 =>
          \A y \in Years : <<stock_tickers[ticker_i + 1], y>> \notin failed_rows]_vars

(***************************************************************************)
(* ImportAnnualData.py and importData.py, get_all_us_stocks: the loop that *)
(* requests the ticker list from TradingView range by range.  The cleaning *)
(* of the tickers is CleanedTickers above.                                 *)
(***************************************************************************)

(* 1500 and 30000 in the source, scaled to three ranges. *)
batch_size == 2
max_tickers_to_fetch == 6

(* The requests are counted up to one more than the ranges there are. *)
RequestCap == max_tickers_to_fetch \div batch_size + 1

(* What a request can come to: a timeout, another RequestException (a
   status that raise_for_status rejects included), a body that is no dict
   with a list 'data', an empty list, a list shorter than the batch, a full
   list, or an exception of another kind while the body is read. *)
TvResponses == {"timeout", "http_error", "unexpected", "empty", "partial", "full",
                "exception"}

(* The range after a response: a full batch and a RequestException advance
   it; a timeout and an unexpected body "continue" with the same range. *)
RangeAfter(range, response) ==
    IF response \in {"full", "http_error"} THEN range + batch_size ELSE range

(* The responses after which the loop is left with "break". *)
Breaks(response) == response \in {"empty", "partial", "exception"}

(* One iteration of "while current_range < max_tickers_to_fetch". *)
RequestBatch ==
    /\ prog = "get_all_us_stocks"
    /\ upc = "loop"
    /\ current_range < max_tickers_to_fetch
    /\ \E response \in TvResponses :
          /\ tv_response' = response
          /\ current_range' = RangeAfter(current_range, response)
          /\ tickers_fetched' =
                CASE response = "full" -> tickers_fetched + batch_size
                  [] response = "partial" -> tickers_fetched + 1
                  [] OTHER -> tickers_fetched
          /\ upc' = IF Breaks(response) THEN "cleaning" ELSE "loop"
    /\ tv_requests' = IF tv_requests < RequestCap THEN tv_requests + 1 ELSE tv_requests
    /\ UNCHANGED <<prog, mainVars, edVars, simVars, numVars, reqVars>>

(* The condition of the while loop fails. *)
LeaveLoop ==
    /\ prog = "get_all_us_stocks"
    /\ upc = "loop"
    /\ current_range >= max_tickers_to_fetch
    /\ upc' = "cleaning"
    /\ UNCHANGED <<prog, mainVars, edVars, simVars, numVars, reqVars, current_range,
                   tickers_fetched, tv_requests, tv_response>>

(* The tickers are cleaned and returned; without any, [] is returned. *)
ReturnTickers ==
    /\ prog = "get_all_us_stocks"
    /\ upc = "cleaning"
    /\ upc' = "returned"
    /\ UNCHANGED <<prog, mainVars, edVars, simVars, numVars, reqVars, current_range,
                   tickers_fetched, tv_requests, tv_response>>

TickersInit == prog = "get_all_us_stocks" /\ MainStart /\ NewStart

TickersNext == RequestBatch \/ LeaveLoop \/ ReturnTickers

(* Every request ends, with a response or with the timeout of 25 seconds,
   so that the function always takes its next step. *)
SpecTickers == TickersInit /\ [][TickersNext]_vars /\ WF_vars(TickersNext)

(* C29: get_all_us_stocks returns for every sequence of responses: an
   iteration of the loop advances current_range by batch_size or leaves the
   loop, so that no more than max_tickers_to_fetch / batch_size requests are
   sent, timeouts and unexpected bodies included. *)
C29_TickerLoopTerminates ==
    /\ [][(prog = "get_all_us_stocks" /\ upc = "loop"
              /\ current_range < max_tickers_to_fetch)
            => (current_range' = current_range + batch_size \/ upc' # "loop")]_vars
    /\ [](prog = "get_all_us_stocks" =>
             tv_requests <= max_tickers_to_fetch \div batch_size)
    /\ <>(prog = "get_all_us_stocks" => upc = "returned")

(***************************************************************************)
(* ImportAnnualData.py, fetch_fmp_data: a request with retries.            *)
(***************************************************************************)

(* What a request can come to: a 200 with a JSON list, with a dict that
   carries "Error Message", with other JSON, or with a body that is no JSON;
   a 429; another 4xx; any other status; a timeout; another
   RequestException; an exception of another kind. *)
FmpOutcomes == {"list", "error_message", "other_json", "no_json", "429", "4xx",
                "5xx", "timeout", "network_error", "exception"}

(* Every network error is tried again. *)
IsRetried_EveryNetworkError(outcome, left) ==
    outcome \in {"429", "5xx", "timeout", "network_error"}

(* Lines 138-145: the outcomes after which the loop goes on with one retry
   less: a 429, a status that is neither 200 nor 4xx, a timeout, and a
   network error when no retry has been used yet. *)
IsRetried(outcome, left) ==
    \/ outcome \in {"429", "5xx", "timeout"}
    \/ outcome = "network_error" /\ left = FMP_RETRY_COUNT

(* Lines 127-146: one iteration of "while retries > 0". *)
SendFmpRequest ==
    /\ prog = "fetch_fmp_data"
    /\ rpc = "call"
    /\ retries > 0
    /\ \E outcome \in FmpOutcomes :
          /\ outcomes' = Append(outcomes, outcome)
          /\ IF IsRetried(outcome, retries)
             THEN /\ retries' = retries - 1
                  /\ delay' = delay * 2
                  /\ UNCHANGED <<rpc, fmp_result>>
             ELSE /\ rpc' = "returned"
                  /\ fmp_result' = IF outcome = "list" THEN "list" ELSE "None"
                  /\ UNCHANGED <<retries, delay>>
    /\ UNCHANGED <<prog, mainVars, edVars, simVars, numVars, tvVars>>

(* Line 147: no retry is left. *)
GiveUp ==
    /\ prog = "fetch_fmp_data"
    /\ rpc = "call"
    /\ retries = 0
    /\ rpc' = "returned"
    /\ fmp_result' = "None"
    /\ UNCHANGED <<prog, mainVars, edVars, simVars, numVars, tvVars, retries, delay,
                   outcomes>>

FetchFmpInit == prog = "fetch_fmp_data" /\ MainStart /\ NewStart

FetchFmpNext == SendFmpRequest \/ GiveUp

(* Every request ends, with a response or with the timeout of 20 seconds,
   and every sleep ends. *)
SpecFetchFmp == FetchFmpInit /\ [][FetchFmpNext]_vars /\ WF_vars(FetchFmpNext)

(* C30: a call of fetch_fmp_data sends at most FMP_RETRY_COUNT requests
   whatever they come to, and returns: a list only after a 200 with a JSON
   list, None after anything else; a 4xx other than 429 ends the call, and a
   network error that is no timeout is followed by another request only
   when it met the first request. *)
C30_FetchReturnsWithinRetries ==
    /\ [](prog = "fetch_fmp_data" =>
            /\ Len(outcomes) <= FMP_RETRY_COUNT
            /\ Len(outcomes) + retries <= FMP_RETRY_COUNT + 1
            /\ fmp_result = "list" =>
                  (outcomes # <<>> /\ outcomes[Len(outcomes)] = "list")
            /\ (rpc = "returned" /\ (outcomes = <<>> \/ outcomes[Len(outcomes)] # "list"))
                  => fmp_result = "None"
            /\ rpc = "returned" => fmp_result \in {"list", "None"}
            /\ \A i \in 1..Len(outcomes) :
                  /\ outcomes[i] \in {"4xx", "list", "error_message", "other_json",
                                      "no_json", "exception"}
                        => (i = Len(outcomes) /\ rpc = "returned")
                  /\ (outcomes[i] = "network_error" /\ i < Len(outcomes)) => i = 1)
    /\ <>(prog = "fetch_fmp_data" => rpc = "returned")

(* A network error at the first request, a timeout at the second and a 429
   at the third: three requests were sent and None is returned. *)
C30_Witness ==
    /\ prog = "fetch_fmp_data" /\ rpc = "returned"
    /\ outcomes = <<"network_error", "timeout", "429">>
    /\ fmp_result = "None"

====
